---------------------------- MODULE Spec2Model ----------------------------
(***************************************************************************)
(* A model of katdal's sensor cache (src/katdal/sensordata.py): the        *)
(* cleaning pass remove_duplicates_and_invalid_values, the constructor of  *)
(* SensorCache with its alias expansion, and SensorCache.get with the      *)
(* operations built on it; and of the rechunking script                    *)
(* (src/scripts/mvf_rechunk.py): its stream selection and the order of     *)
(* the steps of main.                                                      *)
(*                                                                         *)
(* Python strings are tuples of one-character strings, so that endswith,   *)
(* replace and astype('|S7') are computed character by character.          *)
(* Timestamps are integers (seconds); indices are 1-based where numpy's    *)
(* are 0-based.                                                            *)
(***************************************************************************)
EXTENDS Integers, Sequences, FiniteSets, TLC

VARIABLES
    sensor,         \* cleaning pass: the SensorData given to it
    clean_sensor,   \* cleaning pass: what it returned or raised (raised = "pending" before)
    new_args,       \* SensorCache(...): the cache mapping and the aliases given
    constructed,    \* whether SensorCache.__init__ has run
    cache,          \* the dict itself: sensor name -> raw SensorData or extracted data
    props,          \* self.props: name or '*suffix' -> property dict
    timestamps,     \* self.timestamps: the data, and whether it is an ndarray yet
    dump_period,    \* self.dump_period
    keep,           \* self.keep: the time selection
    virtual,        \* self.virtual: the templates, in iteration order
    heap,           \* the raw SensorData objects, by identity
    reads,          \* name -> field -> how often get(name) read that field of a raw object
    extracts,       \* name -> how often extracted data was stored under the name
    last,           \* the last call: its arguments and what it returned or raised
    ncalls,         \* calls made so far
    threads,        \* the get calls in progress in two threads, <<>> without threads
    rechunk         \* mvf_rechunk.py: the run of main, <<>> outside the script

cleanVars == <<sensor, clean_sensor>>
ctorVars == <<new_args, constructed>>
selfVars == <<cache, props, timestamps, dump_period, keep, virtual>>
ghostVars == <<heap, reads, extracts, last, ncalls, threads, rechunk>>
vars == <<cleanVars, ctorVars, selfVars, ghostVars>>

---------------------------------------------------------------------------
(* Bounds of the model *)

\* Longest raw series given to the cleaning pass.
MaxN == 3
\* Most sensors and most alias rules given to the constructor on its own.
MaxSensors == 2
MaxAliases == 2
\* Most calls made on one sensor cache.
MaxCalls == 3
\* The most positions one interpolation is asked for.
MaxQueries == 2
\* The depth of nested calls at which Python gives up (sys.getrecursionlimit).
RecursionLimit == 3

---------------------------------------------------------------------------
(* Sequences and strings *)

Min(a, b) == IF a < b THEN a ELSE b

Range(s) == {s[i] : i \in 1..Len(s)}

\* s[idx] for an index array idx (numpy fancy indexing, 1-based).
Take(s, idx) == [k \in 1..Len(idx) |-> s[idx[k]]]

\* The elements of 1..n that satisfy keep, ascending (ndarray.nonzero()[0]).
RECURSIVE NonZero(_, _)
NonZero(flags, n) ==
    IF n = 0 THEN <<>>
    ELSE IF flags[n] THEN Append(NonZero(flags, n - 1), n)
    ELSE NonZero(flags, n - 1)

\* str.endswith
endswith(name, suffix) ==
    /\ Len(suffix) <= Len(name)
    /\ SubSeq(name, Len(name) - Len(suffix) + 1, Len(name)) = suffix

\* Sensor status strings (KATCP) and an integer status as k7_augment wrote it.
nominal == <<"n", "o", "m", "i", "n", "a", "l">>
warn == <<"w", "a", "r", "n">>
error == <<"e", "r", "r", "o", "r">>
failure == <<"f", "a", "i", "l", "u", "r", "e">>
unreachable == <<"u", "n", "r", "e", "a", "c", "h", "a", "b", "l", "e">>
int_status == <<"1">>

\* ndarray.astype('|S7'): a string of at most seven bytes, longer ones cut.
astype_S7(s) == SubSeq(s, 1, Min(Len(s), 7))

---------------------------------------------------------------------------
(* The cleaning pass *)

\* A RecordSensorData: the record array's fields, and whether it has a
\* 'status' field at all (sensor['status'] raises ValueError without one).
SensorData(name, dtype, timestamp, value, has_status, status) ==
    [name |-> name, dtype |-> dtype, timestamp |-> timestamp, value |-> value,
     has_status |-> has_status, status |-> status]

\* A sort that is not stable: equal timestamps come out in reverse input order.
argsort_unstable(x) ==
    LET before(j, i) == x[j] < x[i] \/ (x[j] = x[i] /\ j > i)
        rank(i) == 1 + Cardinality({j \in 1..Len(x) : before(j, i)})
    IN  [k \in 1..Len(x) |-> CHOOSE i \in 1..Len(x) : rank(i) = k]

\* np.argsort(x, kind='mergesort'): a stable sort, ties keep the input order.
argsort(x) ==
    LET before(j, i) == x[j] < x[i] \/ (x[j] = x[i] /\ j < i)
        rank(i) == 1 + Cardinality({j \in 1..Len(x) : before(j, i)})
    IN  [k \in 1..Len(x) |-> CHOOSE i \in 1..Len(x) : rank(i) = k]

\* Every row taken as the last of its run: duplicates are not collapsed.
last_of_run_all(x) ==
    [k \in 1..(IF Len(x) = 0 THEN 1 ELSE Len(x)) |-> TRUE]

\* list(np.diff(x) != 0) + [True]: one element even when x is empty.
last_of_run(x) ==
    [k \in 1..(IF Len(x) = 0 THEN 1 ELSE Len(x)) |->
        IF k < Len(x) THEN x[k + 1] # x[k] ELSE TRUE]

\* unique_ind[len(unique_ind) - np.cumsum(last_of_run[::-1])[::-1]]: for each
\* sorted position, the position of the last element of its run.
replacement(lor, unique_ind) ==
    LET cumsum(k) == Cardinality({j \in k..Len(lor) : lor[j]})
    IN  [k \in 1..Len(lor) |-> unique_ind[Len(unique_ind) - cumsum(k) + 1]]

\* The statuses that keep a row.
valid_status(status) == status \in {nominal, warn, error}

\* The status array that filters unique_ind: z[unique_ind], z being the
\* 'status' field as read (x and y are reordered by sort_ind, z is not).
status_of_unique(z, sort_ind, unique_ind) ==
    [k \in 1..Len(unique_ind) |-> astype_S7(z[unique_ind[k]])]

remove_duplicates_and_invalid_values(s) ==
    LET sort_ind == argsort(s.timestamp)
        x == Take(s.timestamp, sort_ind)
        y == Take(s.value, sort_ind)
        lor == last_of_run(x)
        unique_ind == NonZero(lor, Len(lor))
        repl == replacement(lor, unique_ind)
        status == status_of_unique(s.status, sort_ind, unique_ind)
        kept == IF s.has_status
                THEN Take(unique_ind,
                          NonZero([k \in 1..Len(unique_ind) |->
                                      valid_status(status[k])],
                                  Len(unique_ind)))
                ELSE unique_ind
    IN  IF \E k \in 1..Len(repl) : repl[k] \notin 1..Len(y)
        THEN \* y[replacement] indexes past the end of y
             [raised |-> "IndexError"]
        ELSE [raised |-> "none",
              data |-> SensorData(s.name, s.dtype, Take(x, kept), Take(y, kept),
                                  FALSE, <<>>)]

---------------------------------------------------------------------------
(* The cleaning pass on its own: every series up to MaxN rows *)

Times == {1, 2, 3}
\* The values of a series of n rows: every row its own value, or all rows
\* the same value (duplicate timestamps that agree).
ValueSeqs(n) == {[i \in 1..n |-> 10 * i], [i \in 1..n |-> 10]}
Statuses == {nominal, warn, error, unreachable, int_status}

SeqsOf(S, n) == [1..n -> S]

\* The variables of the sensor cache while only the cleaning pass runs.
NoCache ==
    /\ new_args = [cache |-> <<>>, aliases |-> <<>>]
    /\ constructed = FALSE
    /\ cache = <<>>
    /\ props = <<>>
    /\ timestamps = [is_ndarray |-> TRUE, data |-> <<>>]
    /\ dump_period = 1
    /\ keep = [kind |-> "slice", mask |-> <<>>]
    /\ virtual = <<>>
    /\ heap = <<>>
    /\ reads = <<>>
    /\ extracts = <<>>
    /\ last = [op |-> "none"]
    /\ threads = <<>>
    /\ rechunk = <<>>
    /\ ncalls = 0

InitClean ==
    /\ NoCache
    /\ \E n \in 0..MaxN, has_status \in BOOLEAN :
         \E ts \in SeqsOf(Times, n), vs \in ValueSeqs(n),
            st \in (IF has_status THEN SeqsOf(Statuses, n) ELSE {<<>>}) :
             sensor = SensorData(<<"s">>, "float", ts, vs, has_status, st)
    /\ clean_sensor = [raised |-> "pending"]

Clean ==
    /\ clean_sensor.raised = "pending"
    /\ clean_sensor' = remove_duplicates_and_invalid_values(sensor)
    /\ UNCHANGED <<sensor, ctorVars, selfVars, ghostVars>>

NextClean == Clean

SpecClean == InitClean /\ [][NextClean]_vars

(* Claims about the cleaning pass *)

CleanReturned == clean_sensor.raised = "none"

\* The row the cleaning pass is documented to keep for timestamp t: the last
\* row of s, in input order, whose timestamp is t.
LastRow(s, t) ==
    CHOOSE i \in 1..Len(s.timestamp) :
        /\ s.timestamp[i] = t
        /\ \A j \in (i + 1)..Len(s.timestamp) : s.timestamp[j] # t

\* C4: for a series with a status field, a timestamp is in the output exactly
\* when the last row with that timestamp has status nominal, warn or error,
\* and the output has no status field.
C4_StatusFilter ==
    (CleanReturned /\ sensor.has_status) =>
        /\ \A t \in Range(sensor.timestamp) :
               (t \in Range(clean_sensor.data.timestamp))
                   <=> (sensor.status[LastRow(sensor, t)] \in {nominal, warn, error})
        /\ ~clean_sensor.data.has_status

\* C5: the output value at each output timestamp t is the value of the last
\* row of the input, in input order, whose timestamp is t.
C5_LastWriteWins ==
    CleanReturned =>
        \A k \in 1..Len(clean_sensor.data.timestamp) :
            clean_sensor.data.value[k] =
                sensor.value[LastRow(sensor, clean_sensor.data.timestamp[k])]

\* An unsorted series in which a timestamp occurs twice with two values has
\* been cleaned and that timestamp is in the output.
C5_Witness ==
    /\ CleanReturned
    /\ \E i, j \in 1..Len(sensor.timestamp) :
          /\ i < j
          /\ sensor.timestamp[i] = sensor.timestamp[j]
          /\ sensor.value[i] # sensor.value[j]
          /\ sensor.timestamp[j] \in Range(clean_sensor.data.timestamp)
    /\ \E i \in 1..(Len(sensor.timestamp) - 1) :
          sensor.timestamp[i] > sensor.timestamp[i + 1]

\* C6: the output timestamps are strictly ascending.
C6_StrictlyAscending ==
    CleanReturned =>
        \A k \in 1..(Len(clean_sensor.data.timestamp) - 1) :
            clean_sensor.data.timestamp[k] < clean_sensor.data.timestamp[k + 1]

\* An unsorted series with a duplicate timestamp and a status field has been
\* cleaned to at least two rows.
C6_Witness ==
    /\ CleanReturned
    /\ sensor.has_status
    /\ Len(clean_sensor.data.timestamp) >= 2
    /\ Len(clean_sensor.data.timestamp) < Len(sensor.timestamp)
    /\ sensor.timestamp[1] > sensor.timestamp[Len(sensor.timestamp)]

\* C7: the cleaning pass never raises; it returns at most as many rows as it
\* was given, for every series including the empty one.
C7_NeverRaises ==
    /\ clean_sensor.raised \in {"pending", "none"}
    /\ CleanReturned =>
          Len(clean_sensor.data.timestamp) <= Len(sensor.timestamp)

---------------------------------------------------------------------------
(* SensorCache.__init__: the alias expansion *)

\* str.replace(old, new): every non-overlapping occurrence of old, left to
\* right; an empty old matches before every character and at the end.
RECURSIVE replace(_, _, _)
replace(name, old, new) ==
    IF Len(old) = 0
    THEN IF Len(name) = 0 THEN new
         ELSE new \o <<name[1]>> \o replace(Tail(name), old, new)
    ELSE IF Len(name) < Len(old) THEN name
    ELSE IF SubSeq(name, 1, Len(old)) = old
    THEN new \o replace(SubSeq(name, Len(old) + 1, Len(name)), old, new)
    ELSE <<name[1]>> \o replace(Tail(name), old, new)

\* An alias rule applies to a name wherever the original text occurs in it.
alias_applies_anywhere(name, original) ==
    \E i \in 1..(Len(name) - Len(original) + 1) :
        SubSeq(name, i, i + Len(original) - 1) = original

\* if name.endswith(original)
alias_applies(name, original) == endswith(name, original)

\* The name of the entry an alias rule adds for name.
aliased_name(name, original, alias) == replace(name, original, alias)

\* One pass of the inner loop: self.iteritems() is a list made before the
\* loop, so every added entry takes its data from the dict c as it was. When
\* two names give the same new name the later one in dict order wins, and that
\* order is any order.
add_aliases(c, alias, original) ==
    LET matching == {n \in DOMAIN c : alias_applies(n, original)}
        added == {aliased_name(n, original, alias) : n \in matching}
        sources == {f \in [added -> matching] :
                       \A m \in added : aliased_name(f[m], original, alias) = m}
    IN  {[m \in DOMAIN c \cup added |-> IF m \in added THEN c[f[m]] ELSE c[m]] :
            f \in sources}

\* The outer loop over aliases.iteritems(), in the order given.
RECURSIVE expand_aliases(_, _)
expand_aliases(caches, aliases) ==
    IF aliases = <<>> THEN caches
    ELSE expand_aliases(
             UNION {add_aliases(c, aliases[1].alias, aliases[1].original) :
                       c \in caches},
             Tail(aliases))

\* The dicts SensorCache(cache, ..., aliases=aliases) can be after __init__.
SensorCache_init(initial, aliases) == expand_aliases({initial}, aliases)

\* A raw sensor in the dict: the SensorData object with this identity.
Raw(id) == [kind |-> "SensorData", id |-> id]

---------------------------------------------------------------------------
(* The constructor on its own: names and alias rules from a small pool *)

m012 == <<"m", "0", "1", "2">>
ant1 == <<"a", "n", "t", "1">>
rx == <<"r", "x">>
underscore == <<"_">>
temperature == <<"t", "e", "m", "p", "e", "r", "a", "t", "u", "r", "e">>
windspeed == <<"w", "i", "n", "d", "s", "p", "e", "e", "d">>
m012_temperature == m012 \o underscore \o temperature
ant1_temperature == ant1 \o underscore \o temperature
temperature_m012 == temperature \o underscore \o m012
temperature_ant1 == temperature \o underscore \o ant1
m012_m012 == m012 \o underscore \o m012
m012_ant1 == m012 \o underscore \o ant1

NamePool ==
    <<m012_temperature, temperature_m012, m012_m012, ant1_temperature,
      temperature_ant1, windspeed>>

AliasRule(alias, original) == [alias |-> alias, original |-> original]

AliasPool == {AliasRule(ant1, m012), AliasRule(rx, ant1), AliasRule(ant1, underscore \o m012)}

\* aliases is a dict: no alias occurs twice.
IsAliasDict(aliases) ==
    \A i, j \in 1..Len(aliases) : aliases[i].alias = aliases[j].alias => i = j

InitAlias ==
    /\ sensor = SensorData(<<>>, "float", <<>>, <<>>, FALSE, <<>>)
    /\ clean_sensor = [raised |-> "pending"]
    /\ \E ids \in SUBSET (1..Len(NamePool)), k \in 0..MaxAliases :
         \E aliases \in [1..k -> AliasPool] :
             /\ Cardinality(ids) \in 1..MaxSensors
             /\ IsAliasDict(aliases)
             /\ new_args = [cache |-> [n \in {NamePool[i] : i \in ids} |->
                                         Raw(CHOOSE i \in ids : NamePool[i] = n)],
                            aliases |-> aliases]
    /\ constructed = FALSE
    /\ cache = <<>>
    /\ props = <<>>
    /\ timestamps = [is_ndarray |-> TRUE, data |-> <<>>]
    /\ dump_period = 1
    /\ keep = [kind |-> "slice", mask |-> <<>>]
    /\ virtual = <<>>
    /\ heap = <<>>
    /\ reads = <<>>
    /\ extracts = <<>>
    /\ last = [op |-> "none"]
    /\ threads = <<>>
    /\ rechunk = <<>>
    /\ ncalls = 0

Construct ==
    /\ ~constructed
    /\ cache' \in SensorCache_init(new_args.cache, new_args.aliases)
    /\ constructed' = TRUE
    /\ UNCHANGED <<new_args, props, timestamps, dump_period, keep, virtual,
                   cleanVars, ghostVars>>

NextAlias == Construct

SpecAlias == InitAlias /\ [][NextAlias]_vars

(* Claims about the alias expansion *)

\* The cache was built from one alias rule, 'ant1' for the original 'm012'.
OneRuleAnt1ForM012 ==
    /\ constructed
    /\ new_args.aliases = <<AliasRule(ant1, m012)>>

\* C8 as stated: a cache built from the entry 'm012_temperature' and the alias
\* rule {'ant1': 'm012'} has an entry 'ant1_temperature' holding the same raw
\* series as 'm012_temperature'.
C8_AliasExample ==
    (OneRuleAnt1ForM012 /\ DOMAIN new_args.cache = {m012_temperature}) =>
        /\ ant1_temperature \in DOMAIN cache
        /\ cache[ant1_temperature] = new_args.cache[m012_temperature]

\* C8 amended: with that rule the entry 'temperature_m012', whose name ends
\* with 'm012', gains 'temperature_ant1' holding the same raw series, and the
\* entry 'm012_temperature', whose name only starts with it, gains nothing.
C8_AliasSuffixExample ==
    OneRuleAnt1ForM012 =>
        /\ temperature_m012 \in DOMAIN new_args.cache =>
              /\ temperature_ant1 \in DOMAIN cache
              /\ cache[temperature_ant1] = new_args.cache[temperature_m012]
        /\ (/\ m012_temperature \in DOMAIN new_args.cache
            /\ ant1_temperature \notin DOMAIN new_args.cache) =>
              ant1_temperature \notin DOMAIN cache

\* A cache was built from 'temperature_m012' and 'm012_temperature' under the
\* rule and holds 'temperature_ant1'.
C8_Witness ==
    /\ OneRuleAnt1ForM012
    /\ DOMAIN new_args.cache = {temperature_m012, m012_temperature}
    /\ temperature_ant1 \in DOMAIN cache

\* The name with only its trailing original suffix replaced by the alias.
SuffixReplaced(name, original, alias) ==
    SubSeq(name, 1, Len(name) - Len(original)) \o alias

\* C9: under one alias rule, every entry whose name ends with the original
\* suffix gains an entry named with only that trailing suffix replaced, holding
\* the identical raw series, and no other entry is added.
C9_AliasRule ==
    (constructed /\ Len(new_args.aliases) = 1) =>
        LET rule == new_args.aliases[1]
            initial == new_args.cache
            matching == {n \in DOMAIN initial : endswith(n, rule.original)}
        IN  /\ \A n \in matching :
                 LET m == SuffixReplaced(n, rule.original, rule.alias)
                 IN  m \in DOMAIN cache /\ cache[m] = initial[n]
            /\ DOMAIN cache =
                   DOMAIN initial \cup
                   {SuffixReplaced(n, rule.original, rule.alias) : n \in matching}

---------------------------------------------------------------------------
(* Values *)

\* A float is a fraction <<numerator, denominator>> in lowest terms; NaN is
\* <<0, 0>>. Integer, boolean and string values stand for themselves.
RECURSIVE gcd(_, _)
gcd(a, b) == IF b = 0 THEN a ELSE gcd(b, a % b)

abs(a) == IF a < 0 THEN -a ELSE a

NaN == <<0, 0>>

fraction(n, d) ==
    IF d = 0 THEN NaN
    ELSE LET g == gcd(abs(n), abs(d))
             sign == IF d < 0 THEN -1 ELSE 1
         IN  <<sign * (n \div g), sign * (d \div g)>>

float(x) == fraction(x, 1)

\* The float an array element of the given dtype takes part in arithmetic as.
as_float(dtype, v) ==
    CASE dtype = "float" -> v
      [] dtype = "int" -> float(v)
      [] dtype = "bool" -> IF v THEN float(1) ELSE float(0)

\* Python dicts with string keys.
EmptyDict == [k \in {} |-> TRUE]

dict_update(d, other) ==
    [k \in DOMAIN d \cup DOMAIN other |-> IF k \in DOMAIN other THEN other[k] ELSE d[k]]

dict_get(d, key, default) == IF key \in DOMAIN d THEN d[key] ELSE default

dict_set(d, key, value) ==
    [k \in DOMAIN d \cup {key} |-> IF k = key THEN value ELSE d[k]]

\* A property value that carries its numpy dtype (initial_value); None.
Typed(dtype, v) == [dtype |-> dtype, v |-> v]
None == [dtype |-> "NoneType", v |-> 0]

\* What get returns or stores that is not a SensorData.
\* Arrays carry the dtype of their elements; interpolated data is float.
array(dtype, data) == [kind |-> "ndarray", dtype |-> dtype, data |-> data]
ndarray(data) == array("float", data)
CategoricalData(dtype, data) == [kind |-> "CategoricalData", dtype |-> dtype, data |-> data]
NoValue == [kind |-> "none"]

\* What a KeyError carries: the text of its message with the values formatted
\* into it.
KeyError(text, args) == [kind |-> "none", text |-> text, args |-> args]

\* isinstance(sensor_data, SensorData)
IsSensorData(sensor_data) == sensor_data.kind = "SensorData"

---------------------------------------------------------------------------
(* Interpolation *)

\* xi.searchsorted(x): how many xi lie below x (a 0-based insertion index).
searchsorted(xi, x) == Cardinality({i \in 1..Len(xi) : xi[i] < x})

\* (1.0 - end_weight) * y_start + end_weight * y_end, the weight being
\* num / den clipped to [0, 1]; NaN at either end gives NaN.
\* The value at the start of the segment, held up to its end.
blend_hold(y_start, y_end, num, den) == y_start

\* The weights of the two ends exchanged.
blend_swapped(y_start, y_end, num, den) ==
    LET p == IF num < 0 THEN 0 ELSE IF num > den THEN den ELSE num
    IN  IF y_start[2] = 0 \/ y_end[2] = 0 THEN NaN
        ELSE fraction(p * y_start[1] * y_end[2] + (den - p) * y_end[1] * y_start[2],
                      den * y_start[2] * y_end[2])

\* The weight left as it is: the first and last segments are extended.
blend_unclipped(y_start, y_end, num, den) ==
    IF y_start[2] = 0 \/ y_end[2] = 0 THEN NaN
    ELSE fraction((den - num) * y_start[1] * y_end[2] + num * y_end[1] * y_start[2],
                  den * y_start[2] * y_end[2])

blend(y_start, y_end, num, den) ==
    LET p == IF num < 0 THEN 0 ELSE IF num > den THEN den ELSE num
    IN  IF y_start[2] = 0 \/ y_end[2] = 0 THEN NaN
        ELSE fraction((den - p) * y_start[1] * y_end[2] + p * y_end[1] * y_start[2],
                      den * y_start[2] * y_end[2])

\* A single value whatever the number of positions.
zeroth_order_scalar(yi, x) == <<yi[1]>>

\* yi[0] * np.ones_like(x)
zeroth_order(yi, x) == [m \in 1..Len(x) |-> yi[1]]

_safe_linear_interp(xi, yi, x) ==
    IF Len(xi) = 1
    THEN zeroth_order(yi, x)
    ELSE [m \in 1..Len(x) |->
            LET found == searchsorted(xi, x[m])
                end == IF found = 0 THEN 1
                       ELSE IF found = Len(xi) THEN Len(xi) - 1
                       ELSE found
                \* end is 0-based: xi[end] there is xi[end + 1] here
                start == end - 1
            IN  blend(yi[start + 1], yi[end + 1],
                      x[m] - xi[start + 1], xi[end + 1] - xi[start + 1])]

\* katdal.categorical.sensor_to_categorical: at each timeline sample the
\* value of the latest sensor event at or before it, the first event's value
\* before any.
sensor_to_categorical(sensor_timestamps, sensor_values, dump_midtimes, period, p) ==
    CategoricalData(
        sensor_values.dtype,
        [m \in 1..Len(dump_midtimes) |->
            LET before == {i \in 1..Len(sensor_timestamps) :
                              sensor_timestamps[i] <= dump_midtimes[m]}
            IN  sensor_values.data[IF before = {} THEN 1
                              ELSE CHOOSE i \in before : \A j \in before : j <= i]])

\* np.issubdtype(dtype, np.float)
is_float(dtype) == dtype = "float"

\* dummy_sensor_data(name, value, dtype): one row at timestamp 0.0. The chain
\* of np.issubdtype tests is the one of the numpy this code was written for,
\* where np.bool stands for np.generic and so takes every remaining dtype:
\* the np.object branch is never reached. An element of an object array is a
\* Python object, Typed by its class.
dummy_sensor_data(name, value, dtype) ==
    IF value.dtype = "NoneType"
    THEN SensorData(name, dtype, <<0>>,
                    <<CASE is_float(dtype) -> NaN
                        [] dtype = "int" -> -1
                        [] dtype = "str" -> ""
                        [] dtype = "object" -> Typed("bool", FALSE)
                        [] OTHER -> FALSE>>,
                    FALSE, <<>>)
    ELSE SensorData(name, value.dtype, <<0>>, <<value.v>>, FALSE, <<>>)

---------------------------------------------------------------------------
(* SensorCache.get *)

\* The cache object: the dict, its attributes and the raw objects it refers
\* to, with the counters kept beside them.
Self ==
    [cache |-> cache, props |-> props, timestamps |-> timestamps,
     dump_period |-> dump_period, keep |-> keep, virtual |-> virtual,
     heap |-> heap, reads |-> reads, extracts |-> extracts,
     \* the virtual sensor constructors a call has invoked, none at its start
     invoked |-> <<>>]

\* A placeholder of a virtual sensor template, '{identifier}'.
IsPlaceholder(token) == token \in {"{ant}", "{inp}"}

\* re.match of the expanded template: each placeholder is '[^//]+', one or
\* more characters other than '/', and the match is anchored at the start of
\* the name only.
RECURSIVE re_match(_, _)
re_match(pattern, name) ==
    IF pattern = <<>> THEN TRUE
    ELSE IF IsPlaceholder(pattern[1])
    THEN \E k \in 1..Len(name) :
            /\ \A i \in 1..k : name[i] # "/"
            /\ re_match(Tail(pattern), SubSeq(name, k + 1, Len(name)))
    ELSE /\ name # <<>>
         /\ name[1] = pattern[1]
         /\ re_match(Tail(pattern), Tail(name))

\* match.groupdict() of a template that matches: each placeholder takes as
\* many characters as leave the rest of the template a match.
RECURSIVE groupdict(_, _)
groupdict(pattern, name) ==
    IF pattern = <<>> THEN EmptyDict
    ELSE IF IsPlaceholder(pattern[1])
    THEN LET fits == {k \in 1..Len(name) :
                        /\ \A i \in 1..k : name[i] # "/"
                        /\ re_match(Tail(pattern), SubSeq(name, k + 1, Len(name)))}
             k == CHOOSE most \in fits : \A other \in fits : other <= most
         IN  dict_set(groupdict(Tail(pattern), SubSeq(name, k + 1, Len(name))),
                      SubSeq(pattern[1], 2, Len(pattern[1]) - 1), SubSeq(name, 1, k))
    ELSE groupdict(Tail(pattern), Tail(name))

\* create_sensor(self, name, **kwargs): the function a template stands for
\* returns the SensorData it computes and stores nothing.
create_sensor(S, template, name, kwargs) == Raw(S.virtual[template].creates)

\* A lookup that takes the last matching template.
lookup_last_match(S, name) ==
    IF name \in DOMAIN S.cache
    THEN [found |-> TRUE, sensor_data |-> S.cache[name], template |-> 0,
          kwargs |-> EmptyDict]
    ELSE LET matching == {i \in 1..Len(S.virtual) :
                             re_match(S.virtual[i].pattern, name)}
         IN  IF matching = {}
             THEN [found |-> FALSE, sensor_data |-> NoValue, template |-> 0,
                   kwargs |-> EmptyDict]
             ELSE LET final == CHOOSE i \in matching : \A j \in matching : i >= j
                      kwargs == groupdict(S.virtual[final].pattern, name)
                  IN  [found |-> TRUE,
                       sensor_data |-> create_sensor(S, final, name, kwargs),
                       template |-> final, kwargs |-> kwargs]

\* A lookup that knows the dict only.
lookup_concrete_only(S, name) ==
    IF name \in DOMAIN S.cache
    THEN [found |-> TRUE, sensor_data |-> S.cache[name], template |-> 0,
          kwargs |-> EmptyDict]
    ELSE [found |-> FALSE, sensor_data |-> NoValue, template |-> 0,
          kwargs |-> EmptyDict]

\* The value under name in the dict or, without one, the SensorData the first
\* matching virtual template creates; template is its position, 0 for none.
lookup(S, name) ==
    IF name \in DOMAIN S.cache
    THEN [found |-> TRUE, sensor_data |-> S.cache[name], template |-> 0,
          kwargs |-> EmptyDict]
    ELSE LET matching == {i \in 1..Len(S.virtual) :
                             re_match(S.virtual[i].pattern, name)}
         IN  IF matching = {}
             THEN [found |-> FALSE, sensor_data |-> NoValue, template |-> 0,
                   kwargs |-> EmptyDict]
             ELSE LET first == CHOOSE i \in matching : \A j \in matching : i <= j
                      kwargs == groupdict(S.virtual[first].pattern, name)
                  IN  [found |-> TRUE,
                       sensor_data |-> create_sensor(S, first, name, kwargs),
                       template |-> first, kwargs |-> kwargs]

\* The class rules of the property table that apply to name.
class_keys(table, name) ==
    {key \in DOMAIN table : key[1] = "*" /\ endswith(name, Tail(key))}

\* props.update(val) for every applying class rule, in the dict's iteration
\* order, which is any order.
RECURSIVE update_from_classes(_, _, _)
update_from_classes(p, table, keys) ==
    IF keys = {} THEN {p}
    ELSE UNION {update_from_classes(dict_update(p, table[key]), table, keys \ {key}) :
                   key \in keys}

\* The property dict get works with: the entry of the name itself, updated
\* from the class rules, then from the keyword arguments.
sensor_props(table, name, kwargs) ==
    {dict_update(p, kwargs) :
        p \in update_from_classes(dict_get(table, name, EmptyDict), table,
                                  class_keys(table, name))}

\* One more read of each field of the raw object, counted for name.
count_reads(r, name) ==
    [n \in DOMAIN r \cup {name} |->
        IF n = name
        THEN [f \in {"timestamp", "value", "status"} |->
                 dict_get(r, name, [g \in {"timestamp", "value", "status"} |-> 0])[f] + 1]
        ELSE r[n]]

\* sensor_data[self.keep]: the kept samples of extracted data; of a raw
\* sensor, RecordSensorData.__getitem__ gives the kept rows of its records.
select_keep(sensor_data, k) ==
    IF IsSensorData(sensor_data)
    THEN [kind |-> "records", id |-> sensor_data.id, keep |-> k]
    ELSE CASE k.kind = "slice" -> array(sensor_data.dtype, sensor_data.data)
           [] k.kind = "mask" ->
                array(sensor_data.dtype,
                      Take(sensor_data.data, NonZero(k.mask, Len(k.mask))))
           [] k.kind = "list" ->
                array(sensor_data.dtype,
                      [i \in 1..Len(k.index) |-> sensor_data.data[k.index[i] + 1]])
           [] k.kind = "index" ->
                [kind |-> "scalar", dtype |-> sensor_data.dtype,
                 data |-> sensor_data.data[k.index[1] + 1]]

\* What a call leaves behind: the cache object after it, what it raised, what
\* it returned, whether it stored extracted data, the template it used.
Outcome(S, raised, value, extracted, template) ==
    [self |-> S, raised |-> raised, value |-> value, extracted |-> extracted,
     template |-> template]

\* The extracted data stored under the name the raw sensor object carries
\* instead of the name asked for.
store_under_sensor_name(S, name, sensor_data) ==
    LET key == IF name \in DOMAIN S.cache /\ IsSensorData(S.cache[name])
               THEN S.heap[S.cache[name].id].name
               ELSE name
    IN  [S EXCEPT !.cache = dict_set(S.cache, key, sensor_data),
                  !.extracts = dict_set(S.extracts, key, dict_get(S.extracts, key, 0) + 1)]

\* The extracted data stored under every name that holds the same raw object.
store_for_all_aliases(S, name, sensor_data) ==
    LET keys == {name} \cup
                {n \in DOMAIN S.cache :
                    /\ name \in DOMAIN S.cache
                    /\ IsSensorData(S.cache[name])
                    /\ IsSensorData(S.cache[n])
                    /\ S.cache[n].id = S.cache[name].id}
    IN  [S EXCEPT !.cache = [n \in DOMAIN S.cache \cup keys |->
                                IF n \in keys THEN sensor_data ELSE S.cache[n]],
                  !.extracts = [n \in DOMAIN S.extracts \cup keys |->
                                   dict_get(S.extracts, n, 0) + (IF n \in keys THEN 1 ELSE 0)]]

\* The selection made before the data is stored.
select_then_store(sensor_data, select, k) ==
    LET selected == IF select THEN select_keep(sensor_data, k) ELSE sensor_data
    IN  [stored |-> selected, returned |-> selected]

\* What the end of get does with extracted data: self[name] = sensor_data,
\* then return sensor_data[self.keep] if select else sensor_data.
store_and_return(sensor_data, select, k) ==
    [stored |-> sensor_data,
     returned |-> IF select THEN select_keep(sensor_data, k) ELSE sensor_data]

\* self[name] = sensor_data
store(S, name, sensor_data) ==
    [S EXCEPT !.cache = dict_set(S.cache, name, sensor_data),
              !.extracts = dict_set(S.extracts, name, dict_get(S.extracts, name, 0) + 1)]

\* Raw data extracted whether or not the caller asked for it.
must_extract_always(sensor_data, extract) == IsSensorData(sensor_data)

\* isinstance(sensor_data, SensorData) and extract
must_extract(sensor_data, extract) == IsSensorData(sensor_data) /\ extract

\* Lines 689-720: data, the cleaned rows or the dummy row, becomes
\* categorical or interpolated data, is stored and returned. S1 is the cache
\* object with the properties p kept for the name.
interpolate_and_store(S, S1, name, data, p, select, template) ==
    LET times == [is_ndarray |-> TRUE, data |-> S.timestamps.data]
        categ == dict_get(p, "categorical", ~is_float(data.dtype))
        p1 == dict_set(p, "categorical", categ)
        interp_degree == dict_get(p1, "interp_degree", 1)
        p2 == IF categ THEN p1 ELSE dict_set(p1, "interp_degree", interp_degree)
        S2 == [S1 EXCEPT !.props = dict_set(S.props, name, p2),
                         !.timestamps = times]
        finish(result) ==
            LET end == store_and_return(result, select, S.keep)
            IN  Outcome(store(S2, name, end.stored), "none", end.returned,
                        TRUE, template)
    IN  IF categ
        THEN finish(sensor_to_categorical(data.timestamp,
                                          array(data.dtype, data.value), times.data,
                                          S.dump_period, p2))
        ELSE IF interp_degree > 0 /\ Len(data.timestamp) > 1 /\ Len(times.data) = 0
        THEN \* self.timestamps[0] of an empty timeline
             Outcome(S2, "IndexError", NoValue, FALSE, template)
        ELSE IF data.dtype \in {"str", "object"}
        THEN \* no arithmetic on strings or wrapped objects
             Outcome(S2, "TypeError", NoValue, FALSE, template)
        ELSE finish(ndarray(_safe_linear_interp(
                        data.timestamp,
                        [i \in 1..Len(data.value) |-> as_float(data.dtype, data.value[i])],
                        times.data)))

\* Lines 685-720: cleaned is what the cleaning pass gave, or the raw data
\* when it has no rows; without a row the dummy row stands in.
extract_cleaned(S, name, has_data, cleaned, p, select, template) ==
    LET S1 == [S EXCEPT !.props = dict_set(S.props, name, p),
                        !.reads = IF has_data THEN count_reads(S.reads, name)
                                  ELSE S.reads]
    IN  IF cleaned.raised # "none"
        THEN Outcome(S1, cleaned.raised, NoValue, FALSE, template)
        ELSE interpolate_and_store(
                 S, S1, name,
                 IF Len(cleaned.data.timestamp) = 0
                 THEN dummy_sensor_data(name, dict_get(p, "initial_value", None),
                                        cleaned.data.dtype)
                 ELSE cleaned.data,
                 p, select, template)

\* The body of 'if isinstance(sensor_data, SensorData) and extract', with p
\* the property dict after the class rules and keyword arguments.
extract_sensor(S, name, sensor_data, p, select, template) ==
    LET raw == S.heap[sensor_data.id]
        has_data == Len(raw.timestamp) > 0
    IN  extract_cleaned(S, name, has_data,
                        IF has_data THEN remove_duplicates_and_invalid_values(raw)
                        ELSE [raised |-> "none", data |-> raw],
                        p, select, template)

\* The property dict of the name made from the keyword arguments although
\* nothing is extracted.
not_extracted_with_props(S, name, kwargs) ==
    [S EXCEPT !.props = dict_set(S.props, name,
                                 CHOOSE p \in sensor_props(S.props, name, kwargs) : TRUE)]

\* The cache object when the test of line 672 fails: lines 673-720 are
\* skipped, the keyword arguments are not looked at.
not_extracted(S, name, kwargs) == S

\* A selection asked of raw data, which get never honours.
invalid_request_never(select, extract) == FALSE

\* if select and not extract: raise ValueError
invalid_request(select, extract) == select /\ ~extract

\* SensorCache.get(name, select, extract, **kwargs): every outcome it can
\* have from the cache object S.
get(S, name, select, extract, kwargs) ==
    IF invalid_request(select, extract)
    THEN {Outcome(S, "ValueError", NoValue, FALSE, 0)}
    ELSE LET hit == lookup(S, name)
             S0 == IF hit.template = 0 THEN S
                   ELSE [S EXCEPT !.invoked =
                            Append(@, [template |-> hit.template, name |-> name,
                                       kwargs |-> hit.kwargs])]
         IN  IF ~hit.found
             THEN {Outcome(S, "KeyError", KeyError("Unknown sensor", <<name>>), FALSE, 0)}
             ELSE IF must_extract(hit.sensor_data, extract)
             THEN {extract_sensor(S0, name, hit.sensor_data, p, select, hit.template) :
                      p \in sensor_props(S.props, name, kwargs)}
             ELSE {Outcome(not_extracted(S0, name, kwargs), "none",
                           IF select THEN select_keep(hit.sensor_data, S.keep)
                           ELSE hit.sensor_data,
                           FALSE, hit.template)}

\* Name-indexed access that forgets the selection.
getitem_unselected(S, name) == get(S, name, FALSE, TRUE, EmptyDict)

\* SensorCache.__getitem__(name)
getitem(S, name) == get(S, name, TRUE, TRUE, EmptyDict)

\* SensorCache.get_with_fallback(sensor_type, names): the first name whose
\* get does not raise KeyError decides; any other error passes through.
RECURSIVE try_names(_, _, _, _)
try_names(S, sensor_type, names, left) ==
    IF left = <<>>
    THEN {Outcome(S, "KeyError",
                  KeyError("Could not find any sensor, tried", <<sensor_type, names>>),
                  FALSE, 0)}
    ELSE UNION {IF out.raised = "KeyError"
                THEN try_names(out.self, sensor_type, names, Tail(left))
                ELSE {out} :
                   out \in get(S, left[1], TRUE, TRUE, EmptyDict)}

\* The last name of the list resolved as well, whichever name succeeded.
get_with_fallback_resolving_last(S, sensor_type, names) ==
    UNION {IF names = <<>> THEN {out}
           ELSE {[out EXCEPT !.self = after.self] :
                    after \in get(out.self, names[Len(names)], TRUE, TRUE, EmptyDict)} :
              out \in try_names(S, sensor_type, names, names)}

\* The names tried from the last to the first.
get_with_fallback_backwards(S, sensor_type, names) ==
    try_names(S, sensor_type, names, [i \in 1..Len(names) |-> names[Len(names) + 1 - i]])

get_with_fallback(S, sensor_type, names) == try_names(S, sensor_type, names, names)

\* The characters of sensor names in the order Python compares them.
Alphabet == <<"*", "/", "_", "a", "m", "n", "o", "s", "t", "v", "w", "x", "y">>

ord(c) == CHOOSE i \in 1..Len(Alphabet) : Alphabet[i] = c

\* a < b for Python strings
RECURSIVE str_less(_, _)
str_less(a, b) ==
    IF b = <<>> THEN FALSE
    ELSE IF a = <<>> THEN TRUE
    ELSE IF a[1] = b[1] THEN str_less(Tail(a), Tail(b))
    ELSE ord(a[1]) < ord(b[1])

\* self.iterkeys(): the keys in the order the dict keeps them, which is one
\* fixed order.
RECURSIVE in_dict_order(_)
in_dict_order(keys) ==
    IF keys = {} THEN <<>>
    ELSE LET key == CHOOSE k \in keys : TRUE
         IN  <<key>> \o in_dict_order(keys \ {key})

iterkeys(S) == in_dict_order(DOMAIN S.cache)

\* sorted(names)
RECURSIVE sorted(_)
sorted(names) ==
    IF names = {} THEN <<>>
    ELSE LET least == CHOOSE n \in names : \A m \in names \ {n} : str_less(n, m)
         IN  <<least>> \o sorted(names \ {least})

\* [self.get(key, extract=...) for key in keys]: one get after the other, the
\* values gathered in acc; an exception ends the loop.
RECURSIVE get_each(_, _, _, _)
get_each(S, keys, extract, acc) ==
    IF keys = <<>>
    THEN {Outcome(S, "none", acc, FALSE, 0)}
    ELSE UNION {IF out.raised = "none"
                THEN get_each(out.self, Tail(keys), extract, Append(acc, out.value))
                ELSE {out} :
                   out \in get(S, keys[1], FALSE, extract, EmptyDict)}

\* An enumeration that forgets extract=False.
iteritems_extracting(S) ==
    LET keys == iterkeys(S)
    IN  {[out EXCEPT !.value = [i \in 1..Len(keys) |-> <<keys[i], out.value[i]>>]] :
            out \in get_each(S, keys, TRUE, <<>>)}

\* SensorCache.iteritems(): (key, self.get(key, extract=False)) for each key.
iteritems(S) ==
    LET keys == iterkeys(S)
    IN  {[out EXCEPT !.value = [i \in 1..Len(keys) |-> <<keys[i], out.value[i]>>]] :
            out \in get_each(S, keys, FALSE, <<>>)}

\* SensorCache.itervalues(): self.get(key, extract=False) for each key.
itervalues(S) == get_each(S, iterkeys(S), FALSE, <<>>)

\* SensorCache.__str__(): the sorted names, each with the object get gives for
\* it without extraction, and the virtual sensor patterns; max() of no names
\* raises ValueError.
str(S) ==
    IF DOMAIN S.cache = {}
    THEN {Outcome(S, "ValueError", NoValue, FALSE, 0)}
    ELSE LET names == sorted(DOMAIN S.cache)
         IN  {[out EXCEPT !.value =
                  [actual |-> [i \in 1..Len(names) |-> <<names[i], out.value[i]>>],
                   virtual |-> {S.virtual[i].pattern : i \in 1..Len(S.virtual)}]] :
                 out \in get_each(S, names, FALSE, <<>>)}

\* SensorCache.__repr__(): the number of sensors and how many of them are
\* cached, that is, no SensorData.
repr(S) ==
    {[out EXCEPT !.value =
         [sensors |-> Len(out.value),
          cached |-> Cardinality({i \in 1..Len(out.value) : ~IsSensorData(out.value[i])})]] :
        out \in get_each(S, iterkeys(S), FALSE, <<>>)}

---------------------------------------------------------------------------
(* The sensor cache in use *)

t_m == <<"t", "_", "m">>
t_a == <<"t", "_", "a">>
s_m == <<"s", "_", "m">>
s_a == <<"s", "_", "a">>
absent == <<"n", "o">>
v_x == <<"v", "/", "x">>
star_m == <<"*", "m">>
star_us_m == <<"*", "_", "m">>
star_a == <<"*", "a">>

\* The raw sensors a cache may be built from: a float sensor, an unsorted
\* float sensor with a repeated timestamp and statuses, a string sensor, an
\* empty float sensor and an integer sensor none of whose rows is valid.
RawSensors ==
    <<SensorData(t_m, "float", <<1, 3>>, <<float(10), float(20)>>, FALSE, <<>>),
      SensorData(t_m, "float", <<3, 1, 3>>, <<float(20), float(10), float(30)>>,
                 TRUE, <<nominal, warn, error>>),
      SensorData(s_m, "str", <<2, 0>>, <<"b", "a">>, FALSE, <<>>),
      SensorData(t_m, "float", <<>>, <<>>, TRUE, <<>>),
      SensorData(t_m, "int", <<1, 2>>, <<7, 8>>, TRUE, <<unreachable, failure>>)>>

\* The mappings given as cache.
InitialCaches ==
    {(t_m :> Raw(i)) : i \in {2, 4, 5}}
    \cup {(t_m :> Raw(1)) @@ (s_m :> Raw(3))}

\* The property tables given as props.
PropTables ==
    {EmptyDict,
     (star_m :> [interp_degree |-> 0, categorical |-> FALSE])
        @@ (star_us_m :> [interp_degree |-> 2])
        @@ (t_m :> [categorical |-> TRUE, interp_degree |-> 1,
                    initial_value |-> Typed("float", float(5))])
        @@ (t_a :> [categorical |-> TRUE])}

\* The keyword arguments given to get.
Overrides ==
    {EmptyDict, [categorical |-> TRUE], [categorical |-> FALSE],
     [interp_degree |-> 0]}

\* The selections given as keep: slice(None) or a boolean mask.
Keeps ==
    {[kind |-> "slice", mask |-> <<>>],
     [kind |-> "mask", mask |-> <<FALSE, TRUE, TRUE, FALSE, TRUE>>]}

\* More selections: one index, or a list of indices (0-based).
IndexKeeps ==
    {[kind |-> "index", index |-> <<3>>],
     [kind |-> "list", index |-> <<4, 0>>]}

\* The names asked for.
CallNames == {t_m, t_a, s_m, absent, v_x}

Init ==
    /\ sensor = SensorData(<<>>, "float", <<>>, <<>>, FALSE, <<>>)
    /\ clean_sensor = [raised |-> "pending"]
    /\ \E initial \in InitialCaches :
         /\ new_args = [cache |-> initial, aliases |-> <<AliasRule(<<"a">>, <<"m">>)>>]
         /\ cache \in SensorCache_init(new_args.cache, new_args.aliases)
    /\ constructed = TRUE
    /\ props \in PropTables
    /\ timestamps = [is_ndarray |-> FALSE, data |-> <<0, 1, 2, 3, 4>>]
    /\ dump_period = 1
    /\ \/ keep \in Keeps
       \/ keep \in IndexKeeps /\ new_args.cache = (t_m :> Raw(2))
    /\ virtual = <<[pattern |-> <<"v", "/", "{ant}">>, creates |-> 1]>>
    /\ heap = RawSensors
    /\ reads = <<>>
    /\ extracts = <<>>
    /\ last = [op |-> "none"]
    /\ threads = <<>>
    /\ rechunk = <<>>
    /\ ncalls = 0

\* The cache object becomes S.
Becomes(S) ==
    /\ cache' = S.cache
    /\ props' = S.props
    /\ timestamps' = S.timestamps
    /\ reads' = S.reads
    /\ extracts' = S.extracts
    /\ ncalls' = ncalls + 1
    /\ UNCHANGED <<dump_period, keep, virtual, heap, threads, rechunk, cleanVars, ctorVars>>

\* What last records of a call on one name.
Called(op, name, select, extract, kwargs, out) ==
    [op |-> op, name |-> name, select |-> select, extract |-> extract,
     kwargs |-> kwargs, raised |-> out.raised, value |-> out.value,
     extracted |-> out.extracted, template |-> out.template,
     invoked |-> out.self.invoked,
     before |-> [cache |-> cache, props |-> props, timestamps |-> timestamps]]

Get ==
    /\ ncalls < MaxCalls
    /\ \E name \in CallNames, select \in BOOLEAN, extract \in BOOLEAN :
       \E kwargs \in IF extract THEN Overrides ELSE {EmptyDict} :
         \E out \in get(Self, name, select, extract, kwargs) :
             /\ Becomes(out.self)
             /\ last' = Called("get", name, select, extract, kwargs, out)

GetItem ==
    /\ ncalls < MaxCalls
    /\ \E name \in CallNames :
         \E out \in getitem(Self, name) :
             /\ Becomes(out.self)
             /\ last' = Called("getitem", name, TRUE, TRUE, EmptyDict, out)

GetWithFallback ==
    /\ ncalls < MaxCalls
    /\ \E names \in {<<>>, <<absent, t_a>>, <<s_m, t_m>>, <<absent>>} :
         \E out \in get_with_fallback(Self, "x", names) :
             /\ Becomes(out.self)
             /\ last' = [op |-> "get_with_fallback", sensor_type |-> "x", names |-> names,
                         before |-> [cache |-> cache, props |-> props,
                                     timestamps |-> timestamps],
                         raised |-> out.raised, value |-> out.value,
                         extracted |-> out.extracted]

\* What last records of a call that enumerates the dict.
Enumerated(op, out) ==
    [op |-> op, raised |-> out.raised, value |-> out.value,
     before |-> [cache |-> cache, props |-> props, timestamps |-> timestamps]]

IterItems ==
    /\ ncalls < MaxCalls
    /\ \E out \in iteritems(Self) :
         /\ Becomes(out.self)
         /\ last' = Enumerated("iteritems", out)

IterValues ==
    /\ ncalls < MaxCalls
    /\ \E out \in itervalues(Self) :
         /\ Becomes(out.self)
         /\ last' = Enumerated("itervalues", out)

Str ==
    /\ ncalls < MaxCalls
    /\ \E out \in str(Self) :
         /\ Becomes(out.self)
         /\ last' = Enumerated("str", out)

Repr ==
    /\ ncalls < MaxCalls
    /\ \E out \in repr(Self) :
         /\ Becomes(out.self)
         /\ last' = Enumerated("repr", out)

Next == Get \/ GetItem \/ GetWithFallback \/ IterItems \/ IterValues \/ Str \/ Repr

Spec == Init /\ [][Next]_vars

(* Claims about the sensor cache *)

\* The same stored value: the same raw object or the same kind of data with
\* the same content.
SameValue(a, b) ==
    /\ a.kind = b.kind
    /\ CASE a.kind \in {"SensorData", "records"} -> a.id = b.id
         [] a.kind = "none" -> TRUE
         [] OTHER -> a.dtype = b.dtype /\ a.data = b.data

\* The same dict of stored values.
SameCache(a, b) ==
    /\ DOMAIN a = DOMAIN b
    /\ \A n \in DOMAIN a : SameValue(a[n], b[n])

\* The last call was get or cache[name] and returned.
LastGetReturned == last.op \in {"get", "getitem"} /\ last.raised = "none"

\* C1: whatever is called, every entry stays in the dict, extracted data is
\* stored under a name at most once, and an entry that holds extracted data
\* keeps exactly that data.
C1_ExtractOnce ==
    [][/\ \A n \in DOMAIN cache :
            /\ n \in DOMAIN cache'
            /\ ~IsSensorData(cache[n]) =>
                  /\ SameValue(cache'[n], cache[n])
                  /\ extracts'[n] = extracts[n]
       /\ \A n \in DOMAIN extracts' : extracts'[n] <= 1]_vars

\* An extracting get with keyword arguments has returned for a name whose data
\* had been extracted by an earlier call.
C1_Witness ==
    /\ LastGetReturned
    /\ last.op = "get"
    /\ last.extract
    /\ ~last.extracted
    /\ last.kwargs # EmptyDict
    /\ last.name \in DOMAIN extracts
    /\ extracts[last.name] = 1
    /\ ncalls >= 2

\* C2: over all the get calls made on a name of the dict, each field of its raw
\* series is read at most once.
C2_ReadAtMostOnce ==
    \A n \in DOMAIN reads \cap DOMAIN cache :
        \A f \in {"timestamp", "value", "status"} : reads[n][f] <= 1

\* C3: the properties a sensor is extracted with take a key given as keyword
\* argument from there, and a key that both the entry of the name and an
\* applying class rule define from the entry of the name.
C3_Precedence ==
    (LastGetReturned /\ last.extracted) =>
        \A key \in {"categorical", "interp_degree", "initial_value"} :
            /\ key \in DOMAIN last.kwargs =>
                  props[last.name][key] = last.kwargs[key]
            /\ (/\ key \notin DOMAIN last.kwargs
                /\ key \in DOMAIN dict_get(last.before.props, last.name, EmptyDict)
                /\ \E rule \in class_keys(last.before.props, last.name) :
                      key \in DOMAIN last.before.props[rule]) =>
                  props[last.name][key] = last.before.props[last.name][key]

\* The dict as the constructor left it.
Constructed == CHOOSE c \in SensorCache_init(new_args.cache, new_args.aliases) : TRUE

\* The pairs of names that share one raw object in the dict c.
AliasPairs(c) ==
    {pair \in (DOMAIN c) \X (DOMAIN c) : pair[1] # pair[2] /\ c[pair[1]] = c[pair[2]]}

\* The data get extracts from a raw sensor under the properties p it ends
\* with, for the dump timestamps timeline: cleaned, replaced by a dummy when
\* nothing is left, then interpolated as categorical or numerical data.
Extracted(raw, name, p, timeline, period) ==
    LET cleaned == IF Len(raw.timestamp) > 0
                   THEN remove_duplicates_and_invalid_values(raw).data
                   ELSE raw
        data == IF Len(cleaned.timestamp) = 0
                THEN dummy_sensor_data(name, dict_get(p, "initial_value", None),
                                       cleaned.dtype)
                ELSE cleaned
    IN  IF p["categorical"]
        THEN sensor_to_categorical(data.timestamp, array(data.dtype, data.value),
                                   timeline, period, p)
        ELSE ndarray(_safe_linear_interp(
                 data.timestamp,
                 [i \in 1..Len(data.value) |-> as_float(data.dtype, data.value[i])],
                 timeline))

\* C10: when a call has extracted one name of an alias pair, that name holds
\* the data extracted from the raw object the pair shares under that name's
\* own properties, and the entry and the properties of the other name are as
\* they were before the call: the shared raw object as long as the other name
\* was never extracted.
C10_AliasIndependence ==
    (LastGetReturned /\ last.extracted) =>
        LET c == Constructed
        IN  \A pair \in AliasPairs(c) :
              last.name = pair[1] =>
                 /\ last.before.cache[pair[1]] = c[pair[1]]
                 /\ ~IsSensorData(cache[pair[1]])
                 /\ SameValue(cache[pair[1]],
                              Extracted(heap[c[pair[1]].id], pair[1], props[pair[1]],
                                        timestamps.data, dump_period))
                 /\ SameValue(cache[pair[2]], last.before.cache[pair[2]])
                 /\ dict_get(extracts, pair[2], 0) = 0 => cache[pair[2]] = c[pair[2]]
                 /\ (pair[2] \in DOMAIN props) = (pair[2] \in DOMAIN last.before.props)
                 /\ pair[2] \in DOMAIN props =>
                       props[pair[2]] = last.before.props[pair[2]]

\* Both names of an alias pair hold extracted data, of different kinds, the
\* second extracted by the last call.
C10_Witness ==
    /\ LastGetReturned
    /\ last.extracted
    /\ \E pair \in AliasPairs(Constructed) :
          /\ last.name = pair[2]
          /\ ~IsSensorData(cache[pair[1]])
          /\ ~IsSensorData(cache[pair[2]])
          /\ cache[pair[1]].kind # cache[pair[2]].kind

\* The dict, the property table and the timeline are as they were before the
\* last call.
LastChangedNothing ==
    /\ SameCache(cache, last.before.cache)
    /\ props = last.before.props
    /\ timestamps = last.before.timestamps

\* C11: a get with select=True and extract=False raises ValueError whatever
\* the name, calls no virtual sensor constructor and leaves the dict, the
\* property table and the timeline as they were.
C11_InvalidRequest ==
    (last.op = "get" /\ last.select /\ ~last.extract) =>
        /\ last.raised = "ValueError"
        /\ last.template = 0
        /\ LastChangedNothing

\* A get with select=True and extract=False has been made on a name that a
\* virtual template matches, after an earlier call.
C11_Witness ==
    /\ last.op = "get"
    /\ last.select
    /\ ~last.extract
    /\ last.name = v_x
    /\ last.raised = "ValueError"
    /\ ncalls >= 2

\* Some virtual template matches the name.
TemplateMatches(name) == \E i \in 1..Len(virtual) : re_match(virtual[i].pattern, name)

\* C12: a get that is not the invalid request raises KeyError exactly when
\* the name is no key of the dict and no virtual template matches it, and the
\* KeyError carries the name.
C12_NotFound ==
    (last.op \in {"get", "getitem"} /\ ~(last.select /\ ~last.extract)) =>
        /\ (last.raised = "KeyError") <=>
              (last.name \notin DOMAIN last.before.cache /\ ~TemplateMatches(last.name))
        /\ last.raised = "KeyError" => last.value.args = <<last.name>>

\* A get has raised KeyError for a name that is neither in the dict nor
\* matched by a template, after a get through a template has returned.
C12_Witness ==
    /\ last.op = "get"
    /\ last.raised = "KeyError"
    /\ last.name = absent
    /\ v_x \in DOMAIN cache

\* C13: a get with extract=False on a key of the dict returns the value
\* stored under it, on a name matched by a virtual template the raw sensor its
\* constructor creates, which is not stored; either way the dict, its keys,
\* the property table and the timeline are as they were.
C13_NoExtractNoChange ==
    (last.op = "get" /\ ~last.extract /\ ~last.select) =>
        /\ LastChangedNothing
        /\ ~last.extracted
        /\ last.name \in DOMAIN last.before.cache =>
              /\ last.raised = "none"
              /\ SameValue(last.value, last.before.cache[last.name])
        /\ (last.name \notin DOMAIN last.before.cache /\ TemplateMatches(last.name)) =>
              /\ last.raised = "none"
              /\ IsSensorData(last.value)
              /\ last.name \notin DOMAIN cache

\* A get with extract=False has returned the raw sensor of a virtual template
\* while another name holds extracted data.
C13_Witness ==
    /\ last.op = "get"
    /\ ~last.extract
    /\ ~last.select
    /\ last.raised = "none"
    /\ last.name = v_x
    /\ IsSensorData(last.value)
    /\ \E n \in DOMAIN cache : ~IsSensorData(cache[n])

\* The pairs in the sequence are the keys of the dict, each once, each with
\* the value stored under it.
PairsAreStored(pairs) ==
    /\ Len(pairs) = Cardinality(DOMAIN cache)
    /\ {pairs[i][1] : i \in 1..Len(pairs)} = DOMAIN cache
    /\ \A i \in 1..Len(pairs) : SameValue(pairs[i][2], cache[pairs[i][1]])

\* C14: itervalues, iteritems, str() and repr() return and leave the dict,
\* the property table and the timeline as they were, so no name is extracted
\* by them; the values they enumerate are the values stored under the keys of
\* the dict, one for each key.
C14_EnumerationNoExtraction ==
    (last.op \in {"iteritems", "itervalues", "str", "repr"}) =>
        /\ last.raised = "none"
        /\ LastChangedNothing
        /\ last.op = "iteritems" => PairsAreStored(last.value)
        /\ last.op = "str" => PairsAreStored(last.value.actual)
        /\ last.op = "itervalues" =>
              PairsAreStored([i \in 1..Len(last.value) |->
                                 <<iterkeys(Self)[i], last.value[i]>>])
        /\ last.op = "repr" =>
              /\ last.value.sensors = Cardinality(DOMAIN cache)
              /\ last.value.cached =
                    Cardinality({n \in DOMAIN cache : ~IsSensorData(cache[n])})

\* iteritems has enumerated a dict in which one name holds extracted data and
\* another is still raw.
C14_Witness ==
    /\ last.op = "iteritems"
    /\ \E i, j \in 1..Len(last.value) :
          /\ IsSensorData(last.value[i][2])
          /\ ~IsSensorData(last.value[j][2])
          /\ IsSensorData(cache[last.value[i][1]])

\* C15: when a get with select=True has returned, the name holds extracted
\* data with one value for each timestamp of the timeline: the data extracted
\* from the raw sensor when this call extracted it, the data held before
\* otherwise; a get with select=False that follows returns exactly that.
C15_SelectionKeepsCache ==
    (LastGetReturned /\ last.select) =>
        /\ last.name \in DOMAIN cache
        /\ ~IsSensorData(cache[last.name])
        /\ Len(cache[last.name].data) = Len(timestamps.data)
        /\ (last.extracted /\ last.name \in DOMAIN last.before.cache) =>
              SameValue(cache[last.name],
                        Extracted(heap[last.before.cache[last.name].id], last.name,
                                  props[last.name], timestamps.data, dump_period))
        /\ (~last.extracted) =>
              SameValue(cache[last.name], last.before.cache[last.name])
        /\ \A out \in get(Self, last.name, FALSE, TRUE, EmptyDict) :
              out.raised = "none" /\ SameValue(out.value, cache[last.name])

\* A get with select=True has extracted a name and returned fewer values
\* than the timeline has timestamps.
C15_Witness ==
    /\ LastGetReturned
    /\ last.select
    /\ last.extracted
    /\ last.value.kind = "ndarray"
    /\ Len(last.value.data) < Len(timestamps.data)

\* The cache object as it was before the last call.
SelfBefore ==
    [Self EXCEPT !.cache = last.before.cache, !.props = last.before.props,
                 !.timestamps = last.before.timestamps]

\* The outcome is what the last call did: what it raised or returned, and the
\* dict, the property table and the timeline it left.
IsLastOutcome(out) ==
    /\ out.raised = last.raised
    /\ SameValue(out.value, last.value)
    /\ SameCache(out.self.cache, cache)
    /\ out.self.props = props
    /\ out.self.timestamps = timestamps

\* C16: what cache[name] raised or returned and the state it left are an
\* outcome of get(name, select=True, extract=True) from the state before it,
\* and what get(name, select=True, extract=True) did is an outcome of
\* cache[name].
C16_GetItemIsSelectingGet ==
    /\ last.op = "getitem" =>
          \E out \in get(SelfBefore, last.name, TRUE, TRUE, EmptyDict) : IsLastOutcome(out)
    /\ (last.op = "get" /\ last.select /\ last.extract /\ last.kwargs = EmptyDict) =>
          \E out \in getitem(SelfBefore, last.name) : IsLastOutcome(out)

\* cache[name] has extracted a name and returned fewer values than the
\* timeline has timestamps.
C16_Witness ==
    /\ last.op = "getitem"
    /\ last.raised = "none"
    /\ last.extracted
    /\ last.value.kind = "ndarray"
    /\ Len(last.value.data) < Len(timestamps.data)

\* Before the last call the name was a key of the dict or matched by a
\* virtual template.
WasKnown(name) == name \in DOMAIN last.before.cache \/ TemplateMatches(name)

\* C17: get_with_fallback raises KeyError exactly when none of the names is
\* known, and the KeyError carries the sensor type and the whole list of
\* names; otherwise it does what get(name, select=True) does for the first
\* known name of the list, and returns what that returns.
C17_FallbackOrder ==
    last.op = "get_with_fallback" =>
        /\ (last.raised = "KeyError") <=>
              (\A i \in 1..Len(last.names) : ~WasKnown(last.names[i]))
        /\ last.raised = "KeyError" =>
              /\ last.value.args = <<last.sensor_type, last.names>>
              /\ LastChangedNothing
        /\ \A i \in 1..Len(last.names) :
              (WasKnown(last.names[i]) /\ \A j \in 1..(i - 1) : ~WasKnown(last.names[j])) =>
                 \E out \in get(SelfBefore, last.names[i], TRUE, TRUE, EmptyDict) :
                     IsLastOutcome(out)

\* get_with_fallback has returned the selected values of its second name,
\* the first being unknown.
C17_Witness ==
    /\ last.op = "get_with_fallback"
    /\ last.raised = "none"
    /\ Len(last.names) = 2
    /\ ~WasKnown(last.names[1])
    /\ last.value.kind \in {"ndarray", "scalar"}

\* The last call left no trace of the name: it is a key of the dict and of
\* the property table exactly if it was, with the value and the properties it
\* had.
Untouched(name) ==
    /\ name \in DOMAIN cache <=> name \in DOMAIN last.before.cache
    /\ name \in DOMAIN cache => SameValue(cache[name], last.before.cache[name])
    /\ name \in DOMAIN props <=> name \in DOMAIN last.before.props
    /\ name \in DOMAIN props => props[name] = last.before.props[name]

\* The names the cache knows of, before or after the last call.
AllNames ==
    DOMAIN cache \cup DOMAIN last.before.cache \cup DOMAIN props
        \cup DOMAIN last.before.props \cup CallNames

\* C29: a get that raises ValueError for a selection of raw data, or
\* KeyError for an unknown name, leaves the dict, the property table and the
\* timeline as they were: no key is added, no properties are added or
\* changed, the timeline is not materialised. After get_with_fallback every
\* name but the first known one of its list is untouched, the unknown names
\* tried before it and the names after it alike, and when no name is known
\* nothing has changed at all.
C29_FailureLeavesNoTrace ==
    /\ (last.op \in {"get", "getitem"}
           /\ (last.raised = "KeyError" \/ (last.select /\ ~last.extract))) =>
          /\ last.raised \in {"KeyError", "ValueError"}
          /\ LastChangedNothing
          /\ \A n \in AllNames : Untouched(n)
          /\ timestamps.is_ndarray = last.before.timestamps.is_ndarray
    /\ last.op = "get_with_fallback" =>
          /\ \A i \in 1..Len(last.names) :
                (~WasKnown(last.names[i]) \/ \E j \in 1..(i - 1) : WasKnown(last.names[j])) =>
                   Untouched(last.names[i])
          /\ \A n \in AllNames :
                (\A i \in 1..Len(last.names) :
                    last.names[i] = n => (\E j \in 1..(i - 1) : WasKnown(last.names[j]))) =>
                   Untouched(n)
          /\ (\A i \in 1..Len(last.names) : ~WasKnown(last.names[i])) =>
                /\ LastChangedNothing
                /\ timestamps.is_ndarray = last.before.timestamps.is_ndarray

\* get_with_fallback has extracted the first name of its list while the
\* second, which is known too, still holds its raw data, and the timeline had
\* not been materialised before.
C29_Witness ==
    /\ last.op = "get_with_fallback"
    /\ last.names = <<s_m, t_m>>
    /\ last.raised = "none"
    /\ last.extracted
    /\ IsSensorData(cache[t_m])
    /\ ~IsSensorData(cache[s_m])
    /\ ~last.before.timestamps.is_ndarray

---------------------------------------------------------------------------
(* Virtual sensors: a cache with several templates *)

v_x_y == <<"v", "/", "x", "/", "y">>
ww_x == <<"w", "w", "/", "x">>

\* The templates: 'v/{ant}', '{inp}/x' and 'v/{ant}/{inp}', each with the raw
\* sensor its function creates.
Templates ==
    {[pattern |-> <<"v", "/", "{ant}">>, creates |-> 1],
     [pattern |-> <<"{inp}", "/", "x">>, creates |-> 2],
     [pattern |-> <<"v", "/", "{ant}", "/", "{inp}">>, creates |-> 5]}

\* The names asked of it: matched by several templates, by one, by none, and
\* a key of the dict.
TemplatedNames == {v_x, v_x_y, ww_x, absent, t_m}

\* A cache of one sensor, 't_m', or 'v/x' that templates match as well, with
\* two or three of the templates in any order.
InitVirtual ==
    /\ sensor = SensorData(<<>>, "float", <<>>, <<>>, FALSE, <<>>)
    /\ clean_sensor = [raised |-> "pending"]
    /\ new_args \in {[cache |-> (t_m :> Raw(1)), aliases |-> <<>>],
                     [cache |-> (v_x :> Raw(3)), aliases |-> <<>>]}
    /\ cache \in SensorCache_init(new_args.cache, new_args.aliases)
    /\ constructed = TRUE
    /\ props = EmptyDict
    /\ timestamps = [is_ndarray |-> FALSE, data |-> <<0, 1, 2, 3, 4>>]
    /\ dump_period = 1
    /\ keep = [kind |-> "slice", mask |-> <<>>]
    /\ \E n \in 2..3 :
         /\ virtual \in [1..n -> Templates]
         /\ \A i, j \in 1..n : i # j => virtual[i] # virtual[j]
    /\ heap = RawSensors
    /\ reads = <<>>
    /\ extracts = <<>>
    /\ last = [op |-> "none"]
    /\ threads = <<>>
    /\ rechunk = <<>>
    /\ ncalls = 0

GetTemplated ==
    /\ ncalls < MaxCalls
    /\ \E name \in TemplatedNames, extract \in BOOLEAN :
         \E out \in get(Self, name, FALSE, extract, EmptyDict) :
             /\ Becomes(out.self)
             /\ last' = Called("get", name, FALSE, extract, EmptyDict, out)

NextVirtual == GetTemplated

SpecVirtual == InitVirtual /\ [][NextVirtual]_vars

\* The template with its placeholders replaced by what kwargs binds them to.
RECURSIVE expand(_, _)
expand(pattern, kwargs) ==
    IF pattern = <<>> THEN <<>>
    ELSE (IF IsPlaceholder(pattern[1])
          THEN kwargs[SubSeq(pattern[1], 2, Len(pattern[1]) - 1)]
          ELSE <<pattern[1]>>) \o expand(Tail(pattern), kwargs)

\* The names of the placeholders of a template.
Placeholders(pattern) ==
    {SubSeq(pattern[i], 2, Len(pattern[i]) - 1) :
        i \in {j \in 1..Len(pattern) : IsPlaceholder(pattern[j])}}

\* kwargs binds each placeholder of the template to a piece of the name: one
\* or more characters without '/', such that the template with the pieces in
\* place starts the name.
BindsPlaceholders(pattern, name, kwargs) ==
    /\ DOMAIN kwargs = Placeholders(pattern)
    /\ \A key \in DOMAIN kwargs :
          kwargs[key] # <<>> /\ \A i \in 1..Len(kwargs[key]) : kwargs[key][i] # "/"
    /\ Len(expand(pattern, kwargs)) <= Len(name)
    /\ expand(pattern, kwargs) = SubSeq(name, 1, Len(expand(pattern, kwargs)))

\* C18: a get on a key of the dict invokes no virtual sensor constructor; a
\* get on another name invokes none when no template matches and otherwise
\* exactly one, that of the first template in iteration order that matches,
\* with the name and with keyword arguments that bind the template's
\* placeholders to the pieces of the name they match.
C18_VirtualResolution ==
    (last.op = "get") =>
        /\ last.name \in DOMAIN last.before.cache => last.invoked = <<>>
        /\ ~WasKnown(last.name) => last.invoked = <<>>
        /\ (last.name \notin DOMAIN last.before.cache /\ TemplateMatches(last.name)) =>
              /\ Len(last.invoked) = 1
              /\ last.invoked[1].name = last.name
              /\ last.invoked[1].template \in 1..Len(virtual)
              /\ re_match(virtual[last.invoked[1].template].pattern, last.name)
              /\ \A j \in 1..(last.invoked[1].template - 1) :
                    ~re_match(virtual[j].pattern, last.name)
              /\ BindsPlaceholders(virtual[last.invoked[1].template].pattern,
                                   last.name, last.invoked[1].kwargs)

\* A get on a name that several templates match has invoked the constructor
\* of one that is not the last of them, binding its two placeholders.
C18_Witness ==
    /\ last.op = "get"
    /\ last.name = v_x_y
    /\ Len(last.invoked) = 1
    /\ \E j \in (last.invoked[1].template + 1)..Len(virtual) :
          re_match(virtual[j].pattern, last.name)
    /\ last.invoked[1].kwargs = [ant |-> <<"x">>, inp |-> <<"y">>]

---------------------------------------------------------------------------
(* Dummy data and the choice between numerical and categorical data *)

\* The element types of the sensors.
Dtypes == {"float", "int", "str", "bool", "object"}

\* Two values of each element type.
Values(dtype) ==
    CASE dtype = "float" -> <<float(10), float(20)>>
      [] dtype = "int" -> <<7, 8>>
      [] dtype = "str" -> <<"b", "a">>
      [] dtype = "bool" -> <<TRUE, FALSE>>
      [] dtype = "object" -> <<Typed("tuple", 1), Typed("tuple", 2)>>

\* The sensors of each element type: without rows, with rows none of which
\* has a valid status, with a valid row after an invalid one, and with two
\* valid rows in ascending or descending order of time.
Contents == {"empty", "invalid", "valid", "sorted", "unsorted"}

TypedSensor(dtype, content) ==
    CASE content = "empty" -> SensorData(t_m, dtype, <<>>, <<>>, TRUE, <<>>)
      [] content = "invalid" ->
            SensorData(t_m, dtype, <<1, 2>>, Values(dtype), TRUE, <<unreachable, failure>>)
      [] content = "valid" ->
            SensorData(t_m, dtype, <<1, 2>>, Values(dtype), TRUE, <<failure, nominal>>)
      [] content = "sorted" ->
            SensorData(t_m, dtype, <<1, 3>>, Values(dtype), TRUE, <<nominal, warn>>)
      [] content = "unsorted" ->
            SensorData(t_m, dtype, <<3, 1>>, <<Values(dtype)[2], Values(dtype)[1]>>,
                       TRUE, <<warn, nominal>>)

\* The values given as the initial_value property.
InitialValues == {Typed("float", float(5)), Typed("int", 3), Typed("str", "u")}

\* The property tables: an entry for 't_m' with or without initial_value and
\* with or without categorical.
TypedPropTables ==
    {EmptyDict}
    \cup {(t_m :> [initial_value |-> value]) : value \in InitialValues}
    \cup {(t_m :> [categorical |-> categorical]) : categorical \in BOOLEAN}
    \cup {(t_m :> [initial_value |-> value, categorical |-> categorical]) :
             value \in InitialValues, categorical \in BOOLEAN}

\* The data timestamps given: five dumps, or none.
Timelines == {<<0, 1, 2, 3, 4>>, <<>>}

\* A cache of one sensor 't_m' of any element type and content.
InitTyped ==
    /\ sensor = SensorData(<<>>, "float", <<>>, <<>>, FALSE, <<>>)
    /\ clean_sensor = [raised |-> "pending"]
    /\ new_args = [cache |-> (t_m :> Raw(1)), aliases |-> <<>>]
    /\ cache \in SensorCache_init(new_args.cache, new_args.aliases)
    /\ constructed = TRUE
    /\ props \in TypedPropTables
    /\ \E timeline \in Timelines :
          timestamps = [is_ndarray |-> FALSE, data |-> timeline]
    /\ dump_period = 1
    /\ keep = [kind |-> "slice", mask |-> <<>>]
    /\ virtual = <<>>
    /\ \E dtype \in Dtypes, content \in Contents :
          heap = <<TypedSensor(dtype, content)>>
    /\ reads = <<>>
    /\ extracts = <<>>
    /\ last = [op |-> "none"]
    /\ threads = <<>>
    /\ rechunk = <<>>
    /\ ncalls = 0

GetTyped ==
    /\ ncalls < MaxCalls
    /\ \E kwargs \in {EmptyDict, [categorical |-> TRUE], [categorical |-> FALSE]} :
         \E out \in get(Self, t_m, FALSE, TRUE, kwargs) :
             /\ Becomes(out.self)
             /\ last' = Called("get", t_m, FALSE, TRUE, kwargs, out)

NextTyped == GetTyped

SpecTyped == InitTyped /\ [][NextTyped]_vars

\* The raw sensor the last call found under its name.
LastRaw == heap[last.before.cache[last.name].id]

\* The last call was a get that extracted the raw sensor under its name.
LastGetExtracted ==
    /\ last.op = "get"
    /\ last.extracted
    /\ last.name \in DOMAIN last.before.cache
    /\ IsSensorData(last.before.cache[last.name])

\* The raw sensor has no rows, or none with a valid status.
NoUsableData(raw) ==
    \/ Len(raw.timestamp) = 0
    \/ Len(remove_duplicates_and_invalid_values(raw).data.timestamp) = 0

\* C19: when neither a class rule, the entry of the name nor a keyword
\* argument sets categorical, a get that extracts a sensor stores numerical
\* data exactly when the element type of the sensor is floating point and
\* categorical data otherwise, dummy data or not; a categorical property
\* that is set decides.
C19_Dispatch ==
    LastGetExtracted =>
        \A p \in sensor_props(last.before.props, last.name, last.kwargs) :
            LET categorical == IF "categorical" \in DOMAIN p THEN p.categorical
                               ELSE LastRaw.dtype # "float"
            IN  cache[last.name].kind =
                   (IF categorical THEN "CategoricalData" ELSE "ndarray")

\* The value the dummy row is said to hold for a sensor of the element type.
DefaultValue(dtype) ==
    CASE dtype = "float" -> NaN
      [] dtype = "int" -> -1
      [] dtype = "str" -> ""
      [] dtype = "bool" -> FALSE
      [] dtype = "object" -> None

\* C20: a get that extracts a sensor without rows, or without a row of valid
\* status, stores what one row at timestamp 0 gives at every dump: the
\* initial_value property when it is set, and otherwise NaN for a float,
\* -1 for an integer, '' for a string, False for a boolean and None for an
\* object sensor.
C20_DummySubstitution ==
    (LastGetExtracted /\ NoUsableData(LastRaw)) =>
        \A p \in sensor_props(last.before.props, last.name, last.kwargs) :
            LET given == "initial_value" \in DOMAIN p
                dtype == IF given THEN p.initial_value.dtype ELSE LastRaw.dtype
                value == IF given THEN p.initial_value.v ELSE DefaultValue(dtype)
                stored == cache[last.name]
            IN  /\ Len(stored.data) = Len(timestamps.data)
                /\ \A m \in 1..Len(stored.data) :
                      stored.data[m] = IF stored.kind = "CategoricalData" THEN value
                                       ELSE as_float(dtype, value)

\* C21: a get that extracts, on a name that is a key of the dict, returns
\* whatever the rows of the sensor and the length of the data timestamps are;
\* the only errors of get are the KeyError of an unknown name and the
\* ValueError of a selection without extraction.
C21_GracefulDegradation ==
    (last.op = "get") =>
        /\ (last.extract /\ last.name \in DOMAIN last.before.cache) => last.raised = "none"
        /\ last.raised \in {"none", "KeyError", "ValueError"}
        /\ last.raised = "ValueError" => (last.select /\ ~last.extract)

\* C25: for dumps at 0, 1, 2, 3, 4 and a float sensor whose rows, in either
\* order, are the value 10 at time 1 and the value 20 at time 3, a get that
\* extracts numerical data returns and stores 10, 10, 15, 20, 20; numerical
\* data always has one element for each dump.
C25_EndToEnd ==
    (LastGetExtracted /\ cache[last.name].kind = "ndarray") =>
        /\ Len(cache[last.name].data) = Len(timestamps.data)
        /\ ( /\ LastRaw.dtype = "float"
             /\ Len(LastRaw.timestamp) = 2
             /\ {<<LastRaw.timestamp[i], LastRaw.value[i]>> : i \in 1..2}
                   = {<<1, float(10)>>, <<3, float(20)>>}
             /\ timestamps.data = <<0, 1, 2, 3, 4>> ) =>
              /\ cache[last.name].data
                    = <<float(10), float(10), float(15), float(20), float(20)>>
              /\ ~last.select => last.value = cache[last.name]

\* The rows were given in descending order of time and numerical data was
\* extracted for the five dumps.
C25_Witness ==
    /\ LastGetExtracted
    /\ LastRaw.dtype = "float"
    /\ LastRaw.timestamp = <<3, 1>>
    /\ LastRaw.value = <<float(20), float(10)>>
    /\ cache[last.name].kind = "ndarray"
    /\ cache[last.name].data = <<float(10), float(10), float(15), float(20), float(20)>>

\* The name held extracted data before the last call.
WasResolved ==
    /\ last.name \in DOMAIN last.before.cache
    /\ ~IsSensorData(last.before.cache[last.name])

\* C28: a get or a name-indexed access on a name that holds extracted data
\* returns, whatever keyword arguments it is given, the stored value (with
\* the selection applied when asked), and leaves the stored value, the
\* property table and the rest of the cache as they were.
C28_OverridesIgnoredOnceResolved ==
    (last.op \in {"get", "getitem"} /\ ~(last.select /\ ~last.extract) /\ WasResolved) =>
        /\ last.raised = "none"
        /\ ~last.extracted
        /\ SameValue(last.value,
                     IF last.select THEN select_keep(last.before.cache[last.name], keep)
                     ELSE last.before.cache[last.name])
        /\ SameValue(cache[last.name], last.before.cache[last.name])
        /\ last.name \in DOMAIN last.before.props <=> last.name \in DOMAIN props
        /\ last.name \in DOMAIN props => props[last.name] = last.before.props[last.name]
        /\ LastChangedNothing

\* An extracting get with categorical=False has returned the categorical
\* data stored for a name whose properties say categorical=True.
C28_Witness ==
    /\ last.op = "get"
    /\ last.extract
    /\ WasResolved
    /\ last.raised = "none"
    /\ last.kwargs = [categorical |-> FALSE]
    /\ last.name \in DOMAIN props
    /\ dict_get(props[last.name], "categorical", FALSE)
    /\ cache[last.name].kind = "CategoricalData"

---------------------------------------------------------------------------
(* The warnings of the numerical path *)

\* What logger.warning is given at lines 704 and 708: the sensor named, the
\* end of the data set that is not covered and the gap in seconds.
Warning(name, at, seconds) == [sensor |-> name, at |-> at, seconds |-> seconds]

\* Lines 702-710: the warnings logged for the timestamps of the cleaned
\* sensor and the data timestamps.
extrapolation_warnings(name, interp_degree, sensor_timestamps, times) ==
    IF interp_degree > 0 /\ Len(sensor_timestamps) > 1
    THEN (IF sensor_timestamps[1] > times[1]
          THEN <<Warning(name, "start", sensor_timestamps[1] - times[1])>>
          ELSE <<>>)
         \o (IF sensor_timestamps[Len(sensor_timestamps)] < times[Len(times)]
             THEN <<Warning(name, "end",
                            times[Len(times)] - sensor_timestamps[Len(sensor_timestamps)])>>
             ELSE <<>>)
    ELSE <<>>

\* The rows that reach line 699: the cleaned rows, or the dummy row.
numerical_rows(name, cleaned, p) ==
    IF Len(cleaned.data.timestamp) = 0
    THEN dummy_sensor_data(name, dict_get(p, "initial_value", None), cleaned.data.dtype)
    ELSE cleaned.data

\* The warnings about extrapolation a get that extracts the raw sensor of the
\* name logs, p being the properties it leaves for the name: none when the
\* cleaning pass raises, on the categorical path, or when self.timestamps[0]
\* raises before anything is logged.
logged_of(S, name, cleaned, p) ==
    IF cleaned.raised # "none" \/ p.categorical THEN <<>>
    ELSE IF p.interp_degree > 0 /\ Len(numerical_rows(name, cleaned, p).timestamp) > 1
            /\ Len(S.timestamps.data) = 0
    THEN <<>>
    ELSE extrapolation_warnings(name, p.interp_degree,
                                numerical_rows(name, cleaned, p).timestamp,
                                S.timestamps.data)

logged(S, name, out) ==
    IF name \in DOMAIN S.cache /\ IsSensorData(S.cache[name])
    THEN logged_of(S, name,
                   IF Len(S.heap[S.cache[name].id].timestamp) > 0
                   THEN remove_duplicates_and_invalid_values(S.heap[S.cache[name].id])
                   ELSE [raised |-> "none", data |-> S.heap[S.cache[name].id]],
                   out.self.props[name])
    ELSE <<>>

\* The data timestamps given: five dumps, the three dumps the sorted rows
\* span, or one dump.
WarnTimelines == {<<0, 1, 2, 3, 4>>, <<1, 2, 3>>, <<2>>}

\* A cache of one sensor 't_m' of a numerical element type and any content.
InitWarn ==
    /\ sensor = SensorData(<<>>, "float", <<>>, <<>>, FALSE, <<>>)
    /\ clean_sensor = [raised |-> "pending"]
    /\ new_args = [cache |-> (t_m :> Raw(1)), aliases |-> <<>>]
    /\ cache \in SensorCache_init(new_args.cache, new_args.aliases)
    /\ constructed = TRUE
    /\ props \in {EmptyDict, (t_m :> [interp_degree |-> 0]),
                  (t_m :> [categorical |-> TRUE])}
    /\ \E timeline \in WarnTimelines :
          timestamps = [is_ndarray |-> FALSE, data |-> timeline]
    /\ dump_period = 1
    /\ keep = [kind |-> "slice", mask |-> <<>>]
    /\ virtual = <<>>
    /\ \E dtype \in {"float", "int"}, content \in Contents :
          heap = <<TypedSensor(dtype, content)>>
    /\ reads = <<>>
    /\ extracts = <<>>
    /\ last = [op |-> "none"]
    /\ threads = <<>>
    /\ rechunk = <<>>
    /\ ncalls = 0

\* cache.get('t_m', **kwargs), with what it logs.
GetLogged ==
    /\ ncalls < MaxCalls
    /\ \E kwargs \in {EmptyDict, [categorical |-> FALSE], [interp_degree |-> 2]} :
         \E out \in get(Self, t_m, FALSE, TRUE, kwargs) :
             /\ Becomes(out.self)
             /\ last' = [op |-> "get", name |-> t_m, select |-> FALSE, extract |-> TRUE,
                         kwargs |-> kwargs, raised |-> out.raised, value |-> out.value,
                         extracted |-> out.extracted,
                         warnings |-> logged(Self, t_m, out),
                         before |-> [cache |-> cache, props |-> props,
                                     timestamps |-> timestamps]]

NextWarn == GetLogged

SpecWarn == InitWarn /\ [][NextWarn]_vars

\* The rows of the raw sensor that the cleaning pass keeps, by timestamp.
CleanedTimes == remove_duplicates_and_invalid_values(LastRaw).data.timestamp

\* C31: a get that extracts numerical data from a sensor of which the
\* cleaning pass keeps at least one row logs a warning that names the sensor
\* when the first kept timestamp is later than the first dump, and one when
\* the last kept timestamp is earlier than the last dump, however many rows
\* are kept.
C31_BoundaryWarnings ==
    (LastGetExtracted /\ cache[last.name].kind = "ndarray"
        /\ Len(LastRaw.timestamp) > 0 /\ Len(CleanedTimes) > 0) =>
        /\ CleanedTimes[1] > timestamps.data[1] =>
              \E i \in 1..Len(last.warnings) :
                  /\ last.warnings[i].sensor = last.name
                  /\ last.warnings[i].at = "start"
        /\ CleanedTimes[Len(CleanedTimes)] < timestamps.data[Len(timestamps.data)] =>
              \E i \in 1..Len(last.warnings) :
                  /\ last.warnings[i].sensor = last.name
                  /\ last.warnings[i].at = "end"

---------------------------------------------------------------------------
(* Virtual sensors that call back into the cache *)

\* What the function of a template does with the cache it is handed:
\* "plain" returns the SensorData it computes; "reads_itself" first calls
\* cache.get(name) on the name it is creating; "stores_first" stores its
\* SensorData as cache[name] and returns cache.get(name).
Behaviours == {"plain", "reads_itself", "stores_first"}

NestingTemplates ==
    {[pattern |-> <<"v", "/", "{ant}">>, creates |-> 1, behaviour |-> b] :
        b \in Behaviours}
    \cup {[pattern |-> <<"{inp}", "/", "x">>, creates |-> 2, behaviour |-> "plain"]}

\* cache.get(name) at the given depth of nested calls, the functions of the
\* templates behaving as the table says. get has no state between the lookup
\* and self[name] = sensor_data: a nested get on the same name runs the
\* lookup again, until the frames run out.
RECURSIVE get_nested(_, _, _)
get_nested(S, name, depth) ==
    LET hit == lookup(S, name)
    IN  IF hit.template = 0
        THEN get(S, name, FALSE, TRUE, EmptyDict)
        ELSE IF S.virtual[hit.template].behaviour = "plain"
        THEN get(S, name, FALSE, TRUE, EmptyDict)
        ELSE LET S0 == [S EXCEPT !.invoked =
                           Append(@, [template |-> hit.template, name |-> name,
                                      kwargs |-> hit.kwargs])]
                 S1 == IF S.virtual[hit.template].behaviour = "stores_first"
                       THEN [S0 EXCEPT !.cache = dict_set(S.cache, name, hit.sensor_data)]
                       ELSE S0
             IN  IF depth >= RecursionLimit
                 THEN {Outcome(S0, "RuntimeError", NoValue, FALSE, hit.template)}
                 ELSE UNION {
                        IF inner.raised # "none"
                        THEN {Outcome(inner.self, inner.raised, inner.value, FALSE,
                                      hit.template)}
                        ELSE IF S.virtual[hit.template].behaviour = "stores_first"
                        THEN \* the function returns extracted data
                             {Outcome(inner.self, "none", inner.value, FALSE,
                                      hit.template)}
                        ELSE {extract_sensor(inner.self, name, hit.sensor_data, p,
                                             FALSE, hit.template) :
                                 p \in sensor_props(inner.self.props, name, EmptyDict)} :
                        inner \in get_nested(S1, name, depth + 1)}

\* The names asked of it.
NestingNames == {v_x, ww_x, t_m, absent}

\* A cache of one sensor and one or two templates.
InitNested ==
    /\ sensor = SensorData(<<>>, "float", <<>>, <<>>, FALSE, <<>>)
    /\ clean_sensor = [raised |-> "pending"]
    /\ new_args \in {[cache |-> (t_m :> Raw(i)), aliases |-> <<>>] : i \in {1, 2, 4}}
    /\ cache \in SensorCache_init(new_args.cache, new_args.aliases)
    /\ constructed = TRUE
    /\ props = EmptyDict
    /\ timestamps = [is_ndarray |-> FALSE, data |-> <<0, 1, 2, 3, 4>>]
    /\ dump_period = 1
    /\ keep = [kind |-> "slice", mask |-> <<>>]
    /\ \E n \in 1..2 :
         /\ virtual \in [1..n -> NestingTemplates]
         /\ \A i, j \in 1..n : i # j => virtual[i].pattern # virtual[j].pattern
    /\ heap = RawSensors
    /\ reads = <<>>
    /\ extracts = <<>>
    /\ last = [op |-> "none"]
    /\ threads = <<>>
    /\ rechunk = <<>>
    /\ ncalls = 0

GetNested ==
    /\ ncalls < MaxCalls
    /\ \E name \in NestingNames :
         \E out \in get_nested(Self, name, 1) :
             /\ Becomes(out.self)
             /\ last' = Called("get", name, FALSE, TRUE, EmptyDict, out)

NextNested == GetNested

SpecNested == InitNested /\ [][NextNested]_vars

\* The last call was a get on a name for which the function of a template
\* that calls cache.get on the name it creates was invoked.
LastGetNested ==
    /\ last.op = "get"
    /\ Len(last.invoked) > 0
    /\ virtual[last.invoked[1].template].behaviour # "plain"

\* C26: a get whose virtual sensor function calls get on the same name
\* returns, the function was invoked once and the name was extracted once at
\* most: the nested get has not started the creation or the extraction of
\* the name again.
C26_ReentrancyGuard ==
    LastGetNested =>
        /\ last.raised = "none"
        /\ Len(last.invoked) = 1
        /\ dict_get(extracts, last.name, 0) <= 1

---------------------------------------------------------------------------
(* SensorCache.get in two threads *)

\* Two threads call get(name, select, **kwargs) on one cache. A thread runs
\* get statement by statement, a read and a write of shared data being steps
\* of their own, and the other thread may run between any two steps. The
\* property dict of the name is an object both threads may hold:
\* threads.dicts has the contents of these objects by identity and
\* threads.entry the identity of the one that is self.props[name], -1 for
\* none.
Threads == {1, 2}

\* The locals of get before its first statement.
Entered ==
    [pc |-> "lookup", sensor_data |-> NoValue, d |-> -1, todo |-> <<>>,
     data |-> NoValue, categ |-> FALSE, interp_degree |-> 0,
     raised |-> "none", value |-> NoValue]

\* sensor_data = super(SensorCache, self).__getitem__(name)
read_entry(c, name) == [value |-> c[name], cache |-> c]

\* The thread's locals L after raise.
raise(L, exception, value) ==
    [L EXCEPT !.pc = "done", !.raised = exception, !.value = value]

\* One step of thread i from the cache object S and the threads X: the cache
\* object and the threads after it.
thread_step(S, X, i) ==
    LET L == X.t[i]
        name == X.args.name
        props_d == X.dicts[L.d]
        Next_(S1, X1, L1) == [self |-> S1, threads |-> [X1 EXCEPT !.t[i] = L1]]
        Update(content) == [X EXCEPT !.dicts[L.d] = content]
    IN  CASE L.pc = "lookup" ->
               IF name \in DOMAIN S.cache
               THEN LET e == read_entry(S.cache, name)
                    IN  Next_([S EXCEPT !.cache = e.cache], X,
                              [L EXCEPT !.sensor_data = e.value,
                                        !.pc = IF IsSensorData(e.value)
                                               THEN "props_get" ELSE "return"])
               ELSE LET hit == lookup(S, name)
                    IN  IF hit.found
                        THEN Next_(S, X, [L EXCEPT !.sensor_data = hit.sensor_data,
                                                   !.pc = "props_get"])
                        ELSE Next_(S, X, raise(L, "KeyError",
                                               KeyError("Unknown sensor", <<name>>)))
          [] L.pc = "props_get" ->
               \* self.props.get(name, {}): the object of the entry, or a new one
               IF X.entry # -1
               THEN Next_(S, X, [L EXCEPT !.d = X.entry, !.pc = "props_set"])
               ELSE Next_(S, [X EXCEPT !.dicts = dict_set(X.dicts, i, EmptyDict)],
                          [L EXCEPT !.d = i, !.pc = "props_set"])
          [] L.pc = "props_set" ->
               \* props = self.props[name] = ...
               Next_(S, [X EXCEPT !.entry = L.d],
                     [L EXCEPT !.todo = sorted(class_keys(S.props, name)),
                               !.pc = "class_rules"])
          [] L.pc = "class_rules" ->
               \* for key, val in self.props.iteritems(): props.update(val)
               IF L.todo = <<>>
               THEN Next_(S, X, [L EXCEPT !.pc = "kwargs"])
               ELSE Next_(S, Update(dict_update(props_d, S.props[L.todo[1]])),
                          [L EXCEPT !.todo = Tail(L.todo)])
          [] L.pc = "kwargs" ->
               \* props.update(kwargs)
               Next_(S, Update(dict_update(props_d, X.args.kwargs)),
                     [L EXCEPT !.pc = "clean"])
          [] L.pc = "clean" ->
               LET raw == S.heap[L.sensor_data.id]
                   has_data == Len(raw.timestamp) > 0
                   S1 == [S EXCEPT !.reads = IF has_data THEN count_reads(S.reads, name)
                                             ELSE S.reads]
               IN  Next_(S1, X,
                         [L EXCEPT !.data = IF has_data
                                            THEN remove_duplicates_and_invalid_values(raw)
                                            ELSE [raised |-> "none", data |-> raw],
                                   !.pc = "dummy"])
          [] L.pc = "dummy" ->
               IF L.data.raised # "none"
               THEN Next_(S, X, raise(L, L.data.raised, NoValue))
               ELSE Next_(S, X,
                          [L EXCEPT !.data =
                                IF Len(L.data.data.timestamp) = 0
                                THEN dummy_sensor_data(
                                         name, dict_get(props_d, "initial_value", None),
                                         L.data.data.dtype)
                                ELSE L.data.data,
                                    !.pc = "timestamps"])
          [] L.pc = "timestamps" ->
               Next_([S EXCEPT !.timestamps =
                               [is_ndarray |-> TRUE, data |-> S.timestamps.data]],
                     X, [L EXCEPT !.pc = "categ_get"])
          [] L.pc = "categ_get" ->
               Next_(S, X, [L EXCEPT !.categ = dict_get(props_d, "categorical",
                                                        ~is_float(L.data.dtype)),
                                     !.pc = "categ_set"])
          [] L.pc = "categ_set" ->
               Next_(S, Update(dict_set(props_d, "categorical", L.categ)),
                     [L EXCEPT !.pc = IF L.categ THEN "interpolate" ELSE "degree_get"])
          [] L.pc = "degree_get" ->
               Next_(S, X, [L EXCEPT !.interp_degree = dict_get(props_d, "interp_degree", 1),
                                     !.pc = "degree_set"])
          [] L.pc = "degree_set" ->
               Next_(S, Update(dict_set(props_d, "interp_degree", L.interp_degree)),
                     [L EXCEPT !.pc = "interpolate"])
          [] L.pc = "interpolate" ->
               IF L.categ
               THEN Next_(S, X,
                          [L EXCEPT !.sensor_data =
                                sensor_to_categorical(
                                    L.data.timestamp,
                                    array(L.data.dtype, L.data.value),
                                    S.timestamps.data, S.dump_period, props_d),
                                    !.pc = "store"])
               ELSE IF L.interp_degree > 0 /\ Len(L.data.timestamp) > 1
                       /\ Len(S.timestamps.data) = 0
               THEN Next_(S, X, raise(L, "IndexError", NoValue))
               ELSE IF L.data.dtype \in {"str", "object"}
               THEN Next_(S, X, raise(L, "TypeError", NoValue))
               ELSE Next_(S, X,
                          [L EXCEPT !.sensor_data =
                                ndarray(_safe_linear_interp(
                                    L.data.timestamp,
                                    [k \in 1..Len(L.data.value) |->
                                        as_float(L.data.dtype, L.data.value[k])],
                                    S.timestamps.data)),
                                    !.pc = "store"])
          [] L.pc = "store" ->
               Next_(store(S, name, L.sensor_data), X, [L EXCEPT !.pc = "return"])
          [] L.pc = "return" ->
               Next_(S, X,
                     [L EXCEPT !.value = IF X.args.select
                                         THEN select_keep(L.sensor_data, S.keep)
                                         ELSE L.sensor_data,
                               !.pc = "done"])

\* The property tables of the cache the threads share: none, and an entry of
\* the name with a class rule that applies to it.
SharedPropTables ==
    {EmptyDict,
     (star_m :> [interp_degree |-> 0, categorical |-> FALSE])
        @@ (t_m :> [categorical |-> TRUE,
                    initial_value |-> Typed("float", float(5))])}

\* Both threads are about to call get(name, select, **kwargs) with the same
\* arguments on a cache nothing was extracted from.
InitThreads ==
    /\ sensor = SensorData(<<>>, "float", <<>>, <<>>, FALSE, <<>>)
    /\ clean_sensor = [raised |-> "pending"]
    /\ \E initial \in InitialCaches :
         new_args = [cache |-> initial, aliases |-> <<>>]
    /\ cache \in SensorCache_init(new_args.cache, new_args.aliases)
    /\ constructed = TRUE
    /\ props \in SharedPropTables
    /\ timestamps = [is_ndarray |-> FALSE, data |-> <<0, 1, 2, 3, 4>>]
    /\ dump_period = 1
    /\ keep \in Keeps
    /\ virtual = <<>>
    /\ heap = RawSensors
    /\ reads = <<>>
    /\ extracts = <<>>
    /\ last = [op |-> "none"]
    /\ ncalls = 0
    /\ \E name \in {t_m, s_m, absent}, select \in BOOLEAN, kwargs \in Overrides :
         threads = [args |-> [name |-> name, select |-> select, kwargs |-> kwargs],
                    begin |-> Self,
                    entry |-> IF name \in DOMAIN props THEN 0 ELSE -1,
                    dicts |-> IF name \in DOMAIN props THEN (0 :> props[name])
                              ELSE <<>>,
                    t |-> [i \in Threads |-> Entered]]
    /\ rechunk = <<>>

\* self.props with the object that is the entry of the name in place.
props_table(table, X) ==
    IF X.entry = -1 THEN table ELSE dict_set(table, X.args.name, X.dicts[X.entry])

Step ==
    \E i \in Threads :
        /\ threads.t[i].pc # "done"
        /\ LET after == thread_step(Self, threads, i)
           IN  /\ threads' = after.threads
               /\ cache' = after.self.cache
               /\ props' = props_table(props, after.threads)
               /\ timestamps' = after.self.timestamps
               /\ reads' = after.self.reads
               /\ extracts' = after.self.extracts
        /\ UNCHANGED <<dump_period, keep, virtual, heap, last, ncalls, rechunk, cleanVars, ctorVars>>

NextThreads == Step

SpecThreads == InitThreads /\ [][NextThreads]_vars

\* Both calls have returned or raised.
BothDone == \A i \in Threads : threads.t[i].pc = "done"

\* The outcomes of two calls of get one after the other from the cache object
\* S: the first call's and the second call's.
Sequential(S, args) ==
    {<<first, second>> :
        first \in get(S, args.name, args.select, TRUE, args.kwargs),
        second \in UNION {get(out.self, args.name, args.select, TRUE, args.kwargs) :
                             out \in get(S, args.name, args.select, TRUE, args.kwargs)}}

\* C27: however the steps of two threads that call get on the same name of
\* raw data with the same arguments interleave, each call ends as a call of
\* the sequential run ends, with a value of the same content when that one
\* returns, and when both are done the dict, the properties and the data
\* timestamps are those the sequential run leaves: the name holds extracted
\* data of that content, and is raw only where the sequential run raises.
C27_ConcurrentResolution ==
    BothDone =>
        \E run \in Sequential(threads.begin, threads.args) :
            /\ \A i \in Threads :
                  /\ threads.t[i].raised = run[1].raised
                  /\ SameValue(threads.t[i].value, run[1].value)
                  /\ SameValue(threads.t[i].value, run[2].value)
            /\ SameCache(cache, run[2].self.cache)
            /\ props = run[2].self.props
            /\ timestamps = run[2].self.timestamps
            /\ (run[1].raised = "none" /\ threads.args.name \in DOMAIN cache) =>
                  ~IsSensorData(cache[threads.args.name])

---------------------------------------------------------------------------
(* The time selection changed between accesses *)

\* _set_keep that drops the selection it is given.
_set_keep_ignored(S, k) == S

\* SensorCache._set_keep(keep): if keep is not None: self.keep = keep
_set_keep(S, k) == IF k.kind # "None" THEN [S EXCEPT !.keep = k] ELSE S

\* What _set_keep is called with: a slice, a mask, an index, a list of
\* indices, or None.
KeepArgs == Keeps \cup IndexKeeps \cup {[kind |-> "None"]}

\* The names accessed between the changes of the selection.
KeepNames == {t_m, s_m, absent}

InitKeep ==
    /\ sensor = SensorData(<<>>, "float", <<>>, <<>>, FALSE, <<>>)
    /\ clean_sensor = [raised |-> "pending"]
    /\ \E initial \in InitialCaches :
         new_args = [cache |-> initial, aliases |-> <<>>]
    /\ cache \in SensorCache_init(new_args.cache, new_args.aliases)
    /\ constructed = TRUE
    /\ props \in SharedPropTables
    /\ timestamps = [is_ndarray |-> FALSE, data |-> <<0, 1, 2, 3, 4>>]
    /\ dump_period = 1
    /\ keep = [kind |-> "slice", mask |-> <<>>]
    /\ virtual = <<>>
    /\ heap = RawSensors
    /\ reads = <<>>
    /\ extracts = <<>>
    /\ last = [op |-> "none"]
    /\ threads = <<>>
    /\ rechunk = <<>>
    /\ ncalls = 0

\* cache._set_keep(k)
SetKeep ==
    /\ ncalls < MaxCalls
    /\ \E k \in KeepArgs :
         /\ keep' = _set_keep(Self, k).keep
         /\ last' = [op |-> "_set_keep", keep |-> k,
                     before |-> [cache |-> cache, props |-> props,
                                 timestamps |-> timestamps, keep |-> keep,
                                 extracts |-> extracts]]
    /\ ncalls' = ncalls + 1
    /\ UNCHANGED <<cache, props, timestamps, dump_period, virtual, heap, reads,
                   extracts, threads, rechunk, cleanVars, ctorVars>>

\* cache.get(name, select), with the selection applied or not.
Access ==
    /\ ncalls < MaxCalls
    /\ \E name \in KeepNames, select \in BOOLEAN :
         \E out \in get(Self, name, select, TRUE, EmptyDict) :
             /\ Becomes(out.self)
             /\ last' = Called("get", name, select, TRUE, EmptyDict, out)

NextKeep == SetKeep \/ Access

SpecKeep == InitKeep /\ [][NextKeep]_vars

\* C30: _set_keep(k) with k not None makes k the selection and _set_keep(None)
\* leaves the selection as it was, and either way the dict, the property
\* table, the timeline and the count of extractions are as they were. A
\* selecting get that returns gives the value stored under the name indexed
\* by the selection of the moment; on a name that held extracted data it
\* extracts nothing and leaves the stored value as it was, whatever
\* selection was current when the data was extracted.
C30_SelectionOverStoredData ==
    /\ last.op = "_set_keep" =>
          /\ keep = IF last.keep.kind # "None" THEN last.keep ELSE last.before.keep
          /\ LastChangedNothing
          /\ extracts = last.before.extracts
    /\ (last.op = "get" /\ last.select /\ last.raised = "none") =>
          /\ last.name \in DOMAIN cache
          /\ ~IsSensorData(cache[last.name])
          /\ Len(cache[last.name].data) = Len(timestamps.data)
          /\ SameValue(last.value, select_keep(cache[last.name], keep))
          /\ WasResolved =>
                /\ ~last.extracted
                /\ LastChangedNothing
                /\ extracts[last.name] = 1

\* A name was extracted, the selection was then changed to a mask, and a
\* selecting get has returned fewer values than the name holds.
C30_Witness ==
    /\ last.op = "get"
    /\ last.select
    /\ last.raised = "none"
    /\ WasResolved
    /\ keep.kind = "mask"
    /\ ncalls = 3
    /\ last.value.kind = "ndarray"
    /\ Len(last.value.data) < Len(cache[last.name].data)

---------------------------------------------------------------------------
(* Linear interpolation on its own: every fit of up to MaxN points *)

\* The x-coordinates of the points, and the positions asked for: below, on,
\* between and above them.
FitTimes == {0, 2, 4, 6}
QueryTimes == {-1, 0, 1, 3, 4, 6, 7}

\* The y-coordinates of the points.
FitValues == {float(10), float(20), fraction(-5, 2)}

\* xi is sorted in ascending order with no duplicate values.
IsAscending(xi) == \A i \in 1..(Len(xi) - 1) : xi[i] < xi[i + 1]

\* The points are the rows of sensor, the positions are the data timestamps.
InitInterp ==
    /\ \E n \in 1..MaxN :
         \E xi \in SeqsOf(FitTimes, n),
            yi \in SeqsOf(IF n = 1 THEN FitValues \cup {NaN} ELSE FitValues, n) :
             /\ IsAscending(xi)
             /\ sensor = SensorData(<<"s">>, "float", xi, yi, FALSE, <<>>)
    /\ clean_sensor = [raised |-> "pending"]
    /\ new_args = [cache |-> <<>>, aliases |-> <<>>]
    /\ constructed = FALSE
    /\ cache = <<>>
    /\ props = <<>>
    /\ \E m \in 0..MaxQueries :
         \E x \in SeqsOf(QueryTimes, m) :
             timestamps = [is_ndarray |-> TRUE, data |-> x]
    /\ dump_period = 1
    /\ keep = [kind |-> "slice", mask |-> <<>>]
    /\ virtual = <<>>
    /\ heap = <<>>
    /\ reads = <<>>
    /\ extracts = <<>>
    /\ last = [op |-> "none"]
    /\ threads = <<>>
    /\ rechunk = <<>>
    /\ ncalls = 0

Interpolate ==
    /\ ncalls = 0
    /\ ncalls' = 1
    /\ last' = [op |-> "_safe_linear_interp",
                y |-> _safe_linear_interp(sensor.timestamp, sensor.value, timestamps.data)]
    /\ UNCHANGED <<cleanVars, ctorVars, cache, props, timestamps, dump_period, keep,
                   virtual, heap, reads, extracts, threads, rechunk>>

NextInterp == Interpolate

SpecInterp == InitInterp /\ [][NextInterp]_vars

(* Claims about the interpolation *)

Interpolated == last.op = "_safe_linear_interp"

\* y0 + (num / den) * (y1 - y0) for finite y0 and y1
OnTheLine(y0, y1, num, den) ==
    fraction(y0[1] * den * y1[2] + num * (y1[1] * y0[2] - y0[1] * y1[2]),
             den * y0[2] * y1[2])

C24_SinglePoint ==
    (Interpolated /\ Len(sensor.timestamp) = 1) =>
        /\ Len(last.y) = Len(timestamps.data)
        /\ \A m \in 1..Len(last.y) : last.y[m] = sensor.value[1]

\* A single point was interpolated at two positions, before and after it.
C24_Witness ==
    /\ Interpolated
    /\ sensor.timestamp = <<2>>
    /\ timestamps.data = <<-1, 7>>
    /\ last.y = <<sensor.value[1], sensor.value[1]>>

---------------------------------------------------------------------------
(* mvf_rechunk.py: the streams to copy *)

\* str.startswith
startswith(s, prefix) ==
    /\ Len(prefix) <= Len(s)
    /\ SubSeq(s, 1, Len(prefix)) = prefix

\* s.split(sep) for a separator that is not empty: the pieces of s between
\* the occurrences of sep, piece being the characters of the piece begun.
RECURSIVE split_from(_, _, _)
split_from(s, sep, piece) ==
    IF s = <<>> THEN <<piece>>
    ELSE IF startswith(s, sep)
    THEN <<piece>> \o split_from(SubSeq(s, Len(sep) + 1, Len(s)), sep, <<>>)
    ELSE split_from(Tail(s), sep, Append(piece, s[1]))

\* s.split(sep): ValueError('empty separator') for sep = ''.
str_split(s, sep) ==
    IF sep = <<>> THEN [raised |-> "ValueError"]
    ELSE [raised |-> "none", value |-> split_from(s, sep, <<>>)]

\* comma_list(value): ','.split(value)
comma_list(value) == str_split(<<",">>, value)

\* The value of the option --streams as argparse leaves it in args.streams:
\* None when the option is not given, comma_list of its text otherwise, and
\* the exit of parser.error when comma_list raises ValueError.
NotGiven == [given |-> FALSE]
Given(text) == [given |-> TRUE, value |-> text]

parse_streams(option) ==
    IF ~option.given THEN [raised |-> "none", streams |-> NotGiven]
    ELSE IF comma_list(option.value).raised # "none"
    THEN [raised |-> "SystemExit", message |-> <<"invalid comma_list value">>]
    ELSE [raised |-> "none", streams |-> Given(comma_list(option.value).value)]

\* The first element of streams that is not archived, 0 for none.
RECURSIVE first_unknown(_, _, _)
first_unknown(streams, archived_streams, i) ==
    IF i > Len(streams) THEN 0
    ELSE IF streams[i] \notin Range(archived_streams) THEN i
    ELSE first_unknown(streams, archived_streams, i + 1)

\* get_streams(telstate, streams). The name parser is bound in parse_args
\* only: the call parser.error(...) of line 118 raises NameError.
get_streams(telstate, streams) ==
    IF telstate.sdp_archived_streams = <<>>
    THEN [raised |-> "RuntimeError",
          message |-> <<"Source dataset does not contain any streams">>]
    ELSE IF ~streams.given
    THEN [raised |-> "none", streams |-> telstate.sdp_archived_streams]
    ELSE IF first_unknown(streams.value, telstate.sdp_archived_streams, 1) # 0
    THEN [raised |-> "NameError", message |-> <<"name 'parser' is not defined">>]
    ELSE [raised |-> "none", streams |-> streams.value]

---------------------------------------------------------------------------
(* mvf_rechunk.py: main *)

stream_A == <<"A">>
stream_B == <<"B">>

\* The telstate of the capture block: the archived streams, and for each
\* stream that has one its chunk_info, the arrays in the order of
\* chunk_info.items() with the prefix of each.
ArrayInfo(array_name, prefix) == [array_name |-> array_name, prefix |-> prefix]

Telstates ==
    {[sdp_archived_streams |-> <<>>, chunk_info |-> <<>>],
     [sdp_archived_streams |-> <<stream_A>>,
      chunk_info |-> (stream_A :> <<ArrayInfo("correlator_data", "pA"),
                                    ArrayInfo("flags", "pA")>>)],
     [sdp_archived_streams |-> <<stream_A, stream_B>>,
      chunk_info |-> (stream_A :> <<ArrayInfo("correlator_data", "pA"),
                                    ArrayInfo("flags", "pA")>>)
                     @@ (stream_B :> <<ArrayInfo("flags", "pB")>>)],
     [sdp_archived_streams |-> <<stream_A, stream_B>>,
      chunk_info |-> (stream_A :> <<ArrayInfo("flags", "pA")>>)]}

\* The command lines: --streams not given or given, and the chunk
\* specifications STREAM/ARRAY:TIME,FREQ.
StreamOptions == {NotGiven, Given(stream_A), Given(<<"A", ",", "B">>)}

SpecLists ==
    {<<>>, <<[stream |-> stream_A, array |-> "flags"]>>,
     <<[stream |-> stream_B, array |-> "weights"]>>}

\* The directories os.path.join(args.dest, prefix) that exist before the run.
Destinations == SUBSET {"pA", "pB"}

\* os.path.exists that never finds the directory.
path_exists_never(fs, path) == FALSE

\* os.path.exists(path), fs being the paths that exist under args.dest.
path_exists(fs, path) == path \in fs

\* What the run does to the destination, in order.
Event(op, stream_name, what) == [op |-> op, stream |-> stream_name, what |-> what]

\* The run R after raise.
failed(R, exception) == [R EXCEPT !.pc = "done", !.raised = exception]

\* Lines 144-150 for the arrays of one stream that are left: the test of
\* each path, RuntimeError at the first that exists, an Array for each
\* before it.
RECURSIVE find_arrays(_, _, _)
find_arrays(R, stream_name, infos) ==
    IF infos = <<>> THEN R
    ELSE LET tested == [R EXCEPT !.log = Append(@, Event("exists", stream_name,
                                                         infos[1].prefix))]
         IN  IF path_exists(R.fs, infos[1].prefix)
             THEN failed(tested, "RuntimeError")
             ELSE find_arrays(
                      [tested EXCEPT !.arrays =
                           Append(@, [stream_name |-> stream_name,
                                      array_name |-> infos[1].array_name,
                                      prefix |-> infos[1].prefix])],
                      stream_name, Tail(infos))

\* The run before its first statement.
InitRechunk ==
    /\ sensor = SensorData(<<>>, "float", <<>>, <<>>, FALSE, <<>>)
    /\ clean_sensor = [raised |-> "pending"]
    /\ new_args = [cache |-> <<>>, aliases |-> <<>>]
    /\ cache = <<>>
    /\ constructed = FALSE
    /\ props = <<>>
    /\ timestamps = [is_ndarray |-> TRUE, data |-> <<>>]
    /\ dump_period = 1
    /\ keep = [kind |-> "slice", mask |-> <<>>]
    /\ virtual = <<>>
    /\ heap = <<>>
    /\ reads = <<>>
    /\ extracts = <<>>
    /\ last = [op |-> "none"]
    /\ ncalls = 0
    /\ threads = <<>>
    /\ \E option \in StreamOptions, spec \in SpecLists, telstate \in Telstates,
          fs \in Destinations :
         rechunk = [pc |-> "parse_args", raised |-> "none",
                    argv |-> [streams |-> option, spec |-> spec],
                    args |-> [streams |-> NotGiven, spec |-> spec],
                    telstate |-> telstate, before |-> fs, fs |-> fs,
                    streams |-> <<>>, todo |-> <<>>, arrays |-> <<>>,
                    log |-> <<>>]

ghostRest == <<heap, reads, extracts, last, ncalls, threads>>

\* Line 125: args = parse_args()
ParseArgs ==
    /\ rechunk.pc = "parse_args"
    /\ LET parsed == parse_streams(rechunk.argv.streams)
       IN  rechunk' = IF parsed.raised # "none" THEN failed(rechunk, parsed.raised)
                      ELSE [rechunk EXCEPT !.args.streams = parsed.streams,
                                           !.pc = "get_streams"]
    /\ UNCHANGED <<cleanVars, ctorVars, selfVars, ghostRest>>

\* Lines 129-133: streams = get_streams(telstate, args.streams)
GetStreams ==
    /\ rechunk.pc = "get_streams"
    /\ LET got == get_streams(rechunk.telstate, rechunk.args.streams)
       IN  rechunk' = IF got.raised # "none" THEN failed(rechunk, got.raised)
                      ELSE [rechunk EXCEPT !.streams = got.streams,
                                           !.todo = got.streams,
                                           !.pc = "find_arrays"]
    /\ UNCHANGED <<cleanVars, ctorVars, selfVars, ghostRest>>

\* Lines 138-150, one stream of the loop: a stream without chunk_info ends
\* the run (the handler of line 143 names 'stream', which is not bound).
FindArrays ==
    /\ rechunk.pc = "find_arrays"
    /\ rechunk' =
         IF rechunk.todo = <<>> THEN [rechunk EXCEPT !.pc = "lost_flags"]
         ELSE IF rechunk.todo[1] \notin DOMAIN rechunk.telstate.chunk_info
         THEN failed(rechunk, "NameError")
         ELSE find_arrays([rechunk EXCEPT !.todo = Tail(@)], rechunk.todo[1],
                          rechunk.telstate.chunk_info[rechunk.todo[1]])
    /\ UNCHANGED <<cleanVars, ctorVars, selfVars, ghostRest>>

\* Lines 154-177: the lost-data flags are merged into the dask graphs of the
\* flags arrays; nothing is read or written yet.
LostFlags ==
    /\ rechunk.pc = "lost_flags"
    /\ rechunk' = [rechunk EXCEPT !.pc = "apply_specs"]
    /\ UNCHANGED <<cleanVars, ctorVars, selfVars, ghostRest>>

\* Lines 180-184: a specification for an array that is not known ends the
\* run.
ApplySpecs ==
    /\ rechunk.pc = "apply_specs"
    /\ rechunk' =
         IF \E i \in 1..Len(rechunk.args.spec) :
               \A k \in 1..Len(rechunk.arrays) :
                   \/ rechunk.arrays[k].stream_name # rechunk.args.spec[i].stream
                   \/ rechunk.arrays[k].array_name # rechunk.args.spec[i].array
         THEN failed(rechunk, "RuntimeError")
         ELSE [rechunk EXCEPT !.pc = "create_array", !.todo = rechunk.arrays]
    /\ UNCHANGED <<cleanVars, ctorVars, selfVars, ghostRest>>

\* Lines 189-192, one array of the loop: dest_store.create_array makes the
\* directory of the array; put_dask_array only extends the graph.
CreateArray ==
    /\ rechunk.pc = "create_array"
    /\ rechunk' =
         IF rechunk.todo = <<>> THEN [rechunk EXCEPT !.pc = "compute"]
         ELSE [rechunk EXCEPT
                  !.todo = Tail(@),
                  !.fs = @ \cup {rechunk.todo[1].prefix},
                  !.log = Append(@, Event("create_array", rechunk.todo[1].stream_name,
                                          rechunk.todo[1].array_name))]
    /\ UNCHANGED <<cleanVars, ctorVars, selfVars, ghostRest>>

\* Lines 193-198: da.compute writes the chunks of every array; a chunk that
\* could not be written ends the run afterwards.
Compute ==
    /\ rechunk.pc = "compute"
    /\ \E chunk_failed \in BOOLEAN :
         LET written == [rechunk EXCEPT
                            !.log = @ \o [k \in 1..Len(rechunk.arrays) |->
                                            Event("put_chunks",
                                                  rechunk.arrays[k].stream_name,
                                                  rechunk.arrays[k].array_name)]]
         IN  rechunk' = IF chunk_failed /\ rechunk.arrays # <<>>
                        THEN failed(written, "ChunkStoreError")
                        ELSE [written EXCEPT !.pc = "chunk_info",
                                             !.todo = rechunk.streams]
    /\ UNCHANGED <<cleanVars, ctorVars, selfVars, ghostRest>>

\* Lines 201-212, one stream of the loop: the chunk_info of the stream is
\* replaced in the telstate.
FixChunkInfo ==
    /\ rechunk.pc = "chunk_info"
    /\ rechunk' =
         IF rechunk.todo = <<>> THEN [rechunk EXCEPT !.pc = "write_rdb"]
         ELSE [rechunk EXCEPT
                  !.todo = Tail(@),
                  !.log = Append(@, Event("chunk_info", rechunk.todo[1], "telstate"))]
    /\ UNCHANGED <<cleanVars, ctorVars, selfVars, ghostRest>>

\* Lines 215-219: the RDB file is written under args.dest.
WriteRDB ==
    /\ rechunk.pc = "write_rdb"
    /\ rechunk' = [rechunk EXCEPT !.pc = "done",
                                  !.log = Append(@, Event("rdb", <<>>, "dest_file"))]
    /\ UNCHANGED <<cleanVars, ctorVars, selfVars, ghostRest>>

NextRechunk ==
    \/ ParseArgs \/ GetStreams \/ FindArrays \/ LostFlags \/ ApplySpecs
    \/ CreateArray \/ Compute \/ FixChunkInfo \/ WriteRDB

SpecRechunk == InitRechunk /\ [][NextRechunk]_vars

\* The streams the command line selects: all archived streams without
\* --streams, the names between the commas of its value otherwise.
SelectedStreams ==
    IF rechunk.argv.streams.given
    THEN Range(split_from(rechunk.argv.streams.value, <<",">>, <<>>))
    ELSE Range(rechunk.telstate.sdp_archived_streams)

\* The directory of some array of a selected stream existed before the run.
DestinationExists ==
    \E stream_name \in SelectedStreams \cap DOMAIN rechunk.telstate.chunk_info :
        \E k \in 1..Len(rechunk.telstate.chunk_info[stream_name]) :
            rechunk.telstate.chunk_info[stream_name][k].prefix \in rechunk.before

\* The run has changed the destination or the telstate.
IsWrite(event) == event.op \in {"create_array", "put_chunks", "chunk_info", "rdb"}

\* C32: when the directory of an array of a selected stream exists before
\* the run, the run creates no array, writes no chunk, no chunk_info and no
\* RDB file at any point and ends with an error; and in every run each test
\* for an existing directory comes before every such write.
C32_NoOverwrite ==
    /\ DestinationExists =>
          /\ \A j \in 1..Len(rechunk.log) : ~IsWrite(rechunk.log[j])
          /\ rechunk.fs = rechunk.before
          /\ rechunk.pc \in {"parse_args", "get_streams", "find_arrays", "done"}
          /\ rechunk.pc = "done" => rechunk.raised # "none"
    /\ \A j \in 1..Len(rechunk.log) :
          rechunk.log[j].op = "exists" =>
             \A i \in 1..(j - 1) : ~IsWrite(rechunk.log[i])

\* The arrays of the first stream passed the test, the directory of the
\* second stream exists and the run has ended with RuntimeError.
C32_Witness ==
    /\ rechunk.pc = "done"
    /\ rechunk.raised = "RuntimeError"
    /\ rechunk.before = {"pB"}
    /\ Len(rechunk.log) = 3
    /\ rechunk.log[3] = Event("exists", stream_B, "pB")
    /\ Len(rechunk.arrays) = 2

---------------------------------------------------------------------------
(* mvf_rechunk.py: comma_list and get_streams on their own *)

\* The texts given to --streams: up to three of the characters A, B and the
\* comma.
OptionTexts ==
    UNION {[1..n -> {"A", "B", ","}] : n \in 0..3}

\* The lists of archived streams, and the lists asked of get_streams.
ArchivedLists == {<<>>, <<stream_A>>, <<stream_A, stream_B>>}

AskedLists ==
    {NotGiven, Given(<<>>), Given(<<stream_A>>), Given(<<stream_B>>),
     Given(<<stream_B, stream_A>>), Given(<<stream_A, <<"A", "B">>>>),
     Given(<<<<",">>>>)}

InitStreams ==
    /\ sensor = SensorData(<<>>, "float", <<>>, <<>>, FALSE, <<>>)
    /\ clean_sensor = [raised |-> "pending"]
    /\ new_args = [cache |-> <<>>, aliases |-> <<>>]
    /\ cache = <<>>
    /\ constructed = FALSE
    /\ props = <<>>
    /\ timestamps = [is_ndarray |-> TRUE, data |-> <<>>]
    /\ dump_period = 1
    /\ keep = [kind |-> "slice", mask |-> <<>>]
    /\ virtual = <<>>
    /\ heap = <<>>
    /\ reads = <<>>
    /\ extracts = <<>>
    /\ last = [op |-> "none"]
    /\ ncalls = 0
    /\ threads = <<>>
    /\ \E text \in OptionTexts, archived \in ArchivedLists, asked \in AskedLists :
         rechunk = [option |-> Given(text),
                    telstate |-> [sdp_archived_streams |-> archived],
                    asked |-> asked,
                    parsed |-> [raised |-> "pending"],
                    selected |-> [raised |-> "pending"]]

\* parser.parse_args() with --streams given
ParseStreams ==
    /\ rechunk.parsed.raised = "pending"
    /\ rechunk' = [rechunk EXCEPT !.parsed = parse_streams(rechunk.option)]
    /\ UNCHANGED <<cleanVars, ctorVars, selfVars, ghostRest>>

\* get_streams(telstate, streams)
SelectStreams ==
    /\ rechunk.selected.raised = "pending"
    /\ rechunk' = [rechunk EXCEPT
                      !.selected = get_streams(rechunk.telstate, rechunk.asked)]
    /\ UNCHANGED <<cleanVars, ctorVars, selfVars, ghostRest>>

NextStreams == ParseStreams \/ SelectStreams

SpecStreams == InitStreams /\ [][NextStreams]_vars

\* The names between the commas of the text, when each of them has a
\* character.
NamesBetweenCommas(text) == split_from(text, <<",">>, <<>>)

IsListOfNames(text) ==
    \A k \in 1..Len(NamesBetweenCommas(text)) : NamesBetweenCommas(text)[k] # <<>>

\* C33: --streams with names separated by commas, 'A,B' for one, leaves
\* the list of these names in args.streams; get_streams returns the list it
\* is given when each of its names is archived, all archived streams when
\* it is given None, and for a name that is not archived it ends the run
\* through parser.error with a message that lists the archived streams.
C33_StreamSelection ==
    /\ (rechunk.parsed.raised # "pending" /\ IsListOfNames(rechunk.option.value)) =>
          /\ rechunk.parsed.raised = "none"
          /\ rechunk.parsed.streams = Given(NamesBetweenCommas(rechunk.option.value))
    /\ (rechunk.selected.raised # "pending"
           /\ rechunk.telstate.sdp_archived_streams # <<>>) =>
          IF ~rechunk.asked.given
          THEN /\ rechunk.selected.raised = "none"
               /\ rechunk.selected.streams = rechunk.telstate.sdp_archived_streams
          ELSE IF Range(rechunk.asked.value) \subseteq
                     Range(rechunk.telstate.sdp_archived_streams)
          THEN /\ rechunk.selected.raised = "none"
               /\ rechunk.selected.streams = rechunk.asked.value
          ELSE /\ rechunk.selected.raised = "SystemExit"
               /\ rechunk.selected.message =
                     <<"Stream is not known (should be one of)",
                       rechunk.telstate.sdp_archived_streams>>

=============================================================================
